---- MODULE Spec2Model ----
(***************************************************************************)
(* Stop Comparison Analyzer (stop_comparison_analyzer.py): the engine that *)
(* binds wireless sightings to configured stops, aggregates them into     *)
(* WirelessDevice records, scores them and ranks the multi-stop devices.  *)
(*                                                                         *)
(* Conventions of the model                                                *)
(*  - A Python str that the code formats, upper-cases or slices is a       *)
(*    sequence of one-character strings; stop names and manufacturer      *)
(*    names, which the code only compares, are plain strings.              *)
(*  - Optional[...] fields are sequences of length 0 (None) or 1.          *)
(*  - A dict is a function whose DOMAIN is the set of keys present.        *)
(*  - self.devices (an insertion-ordered dict) is the sequence of its      *)
(*    values in insertion order, each carrying its key.                    *)
(*  - Coordinates are integers in units of 1e-4 degree, distances are      *)
(*    integers in millimetres, datetimes are epoch seconds (UTC), scores   *)
(*    are exact integers in units of 1/ScoreScale.                         *)
(*  - A NULL column and a 0 column of a Kismet row are both written 0: the *)
(*    code tests these columns by truthiness only.                         *)
(***************************************************************************)
EXTENDS Integers, Sequences, FiniteSets, TLC

VARIABLES
    stops,                \* self.stops: sequence of Stop
    radius_meters,        \* self.radius_meters (here in millimetres)
    minimum_occurrences,  \* self.minimum_occurrences
    ignored_macs,         \* self.ignored_macs
    ignored_ssids,        \* self.ignored_ssids
    bssids_by_stop,       \* self.bssids_by_stop
    ssids_by_stop,        \* self.ssids_by_stop
    probes_by_stop,       \* self.probes_by_stop
    devices,              \* self.devices
    call,                 \* the last handler called and its argument
    ret,                  \* what that call returned
    calls,                \* the number of handler calls made so far
    button,               \* cyt_gui: the state of stop_compare_btn
    workers,              \* cyt_gui: the threads started for stop comparisons
    analyzers,            \* cyt_gui: the number of analyzers constructed so far
    configured,           \* cyt_gui: the number of stops in config.json
    pending               \* cyt_gui: callbacks queued with root.after

vars == <<stops, radius_meters, minimum_occurrences, ignored_macs, ignored_ssids,
          bssids_by_stop, ssids_by_stop, probes_by_stop, devices, call, ret, calls,
          button, workers, analyzers, configured, pending>>

config == <<stops, radius_meters, minimum_occurrences, ignored_macs, ignored_ssids>>

per_stop == <<bssids_by_stop, ssids_by_stop, probes_by_stop>>

gui == <<button, workers, analyzers, configured, pending>>

-----------------------------------------------------------------------------
(* Strings *)

BSSID == <<"B", "S", "S", "I", "D">>
SSID == <<"S", "S", "I", "D">>
PROBE == <<"P", "R", "O", "B", "E">>

UpperTable == "a" :> "A" @@ "b" :> "B" @@ "c" :> "C" @@ "d" :> "D" @@ "e" :> "E" @@ "f" :> "F" @@ "g" :> "G" @@ "h" :> "H" @@ "i" :> "I" @@ "j" :> "J" @@ "k" :> "K" @@ "l" :> "L" @@ "m" :> "M" @@ "n" :> "N" @@ "o" :> "O" @@ "p" :> "P" @@ "q" :> "Q" @@ "r" :> "R" @@ "s" :> "S" @@ "t" :> "T" @@ "u" :> "U" @@ "v" :> "V" @@ "w" :> "W" @@ "x" :> "X" @@ "y" :> "Y" @@ "z" :> "Z"

LowerTable == "A" :> "a" @@ "B" :> "b" @@ "C" :> "c" @@ "D" :> "d" @@ "E" :> "e" @@ "F" :> "f" @@ "G" :> "g" @@ "H" :> "h" @@ "I" :> "i" @@ "J" :> "j" @@ "K" :> "k" @@ "L" :> "l" @@ "M" :> "m" @@ "N" :> "n" @@ "O" :> "o" @@ "P" :> "p" @@ "Q" :> "q" @@ "R" :> "r" @@ "S" :> "s" @@ "T" :> "t" @@ "U" :> "u" @@ "V" :> "v" @@ "W" :> "w" @@ "X" :> "x" @@ "Y" :> "y" @@ "Z" :> "z"

\* str.upper()
upper(s) == [i \in DOMAIN s |-> IF s[i] \in DOMAIN UpperTable THEN UpperTable[s[i]] ELSE s[i]]

\* str.lower()
lower(s) == [i \in DOMAIN s |-> IF s[i] \in DOMAIN LowerTable THEN LowerTable[s[i]] ELSE s[i]]

\* str.replace(old, new) for one-character old and new
replace(s, old, new) == [i \in DOMAIN s |-> IF s[i] = old THEN new ELSE s[i]]

\* s[:n]
prefix(s, n) == SubSeq(s, 1, IF Len(s) < n THEN Len(s) ELSE n)

\* f"{identifier_type}:{identifier}"
\* Variant of device_key: the key is the identifier alone.
device_key_untyped(identifier_type, identifier) == identifier

device_key(identifier_type, identifier) == identifier_type \o <<":">> \o identifier

-----------------------------------------------------------------------------
(* Module-level tables (the entries the model's identifiers can hit) *)

OUI_DATABASE == (<<"0", "0", ":", "0", "0", ":", "0", "C">> :> "Cisco") @@ (<<"0", "0", ":", "0", "3", ":", "9", "3">> :> "Apple")

COMMON_PUBLIC_SSIDS == {<<"G", "u", "e", "s", "t">>, <<"G", "U", "E", "S", "T">>, <<"l", "i", "n", "k", "s", "y", "s">>, <<"N", "E", "T", "G", "E", "A", "R">>}

-----------------------------------------------------------------------------
(* Dicts and optionals *)

None == <<>>

Some(v) == <<v>>

EmptyDict == [k \in {} |-> {}]

\* d[k] = v
DictSet(d, k, v) == [x \in DOMAIN d \cup {k} |-> IF x = k THEN v ELSE d[x]]

\* Variant of SetAdd: the set of the key holds the latest value only.
SetAdd_latest(d, k, v) == DictSet(d, k, {v})

\* Variant of SetAdd: an identifier on an ignore list is left out.
SetAdd_unlisted(d, k, v) ==
    IF v \in ignored_ssids \/ upper(v) \in ignored_macs THEN d
    ELSE DictSet(d, k, (IF k \in DOMAIN d THEN d[k] ELSE {}) \cup {v})

\* defaultdict(set): d[k].add(v)
SetAdd(d, k, v) == DictSet(d, k, (IF k \in DOMAIN d THEN d[k] ELSE {}) \cup {v})

-----------------------------------------------------------------------------
(* Units *)

ScoreScale == 60 * 100

\* n tenths and n hundredths of a full score
Tenths(n) == (n * ScoreScale) \div 10

Hundredths(n) == (n * ScoreScale) \div 100

SecondsPerDay == 24 * 3600

\* datetime.date() of datetime.fromtimestamp(ts)
date(ts) == ts \div SecondsPerDay

-----------------------------------------------------------------------------
(* StopLocator *)

\* Values of haversine_distance (R = 6371000 m) on the model's coordinates,
\* rounded to the millimetre.
HaversineTable ==
    <<400000, -750000, 400000, -750000>> :> 0 @@
    <<400000, -750000, 400003, -750000>> :> 33358 @@
    <<400000, -750000, 400010, -750000>> :> 111195 @@
    <<400000, -750000, 400050, -750050>> :> 700347 @@
    <<400000, -750000, 400100, -750100>> :> 1400676 @@
    <<400003, -750000, 400000, -750000>> :> 33358 @@
    <<400003, -750000, 400003, -750000>> :> 0 @@
    <<400003, -750000, 400010, -750000>> :> 77836 @@
    <<400003, -750000, 400050, -750050>> :> 674170 @@
    <<400003, -750000, 400100, -750100>> :> 1374342 @@
    <<400010, -750000, 400000, -750000>> :> 111195 @@
    <<400010, -750000, 400003, -750000>> :> 77836 @@
    <<400010, -750000, 400010, -750000>> :> 0 @@
    <<400010, -750000, 400050, -750050>> :> 615796 @@
    <<400010, -750000, 400100, -750100>> :> 1314138 @@
    <<400050, -750050, 400000, -750000>> :> 700347 @@
    <<400050, -750050, 400003, -750000>> :> 674170 @@
    <<400050, -750050, 400010, -750000>> :> 615796 @@
    <<400050, -750050, 400050, -750050>> :> 0 @@
    <<400050, -750050, 400100, -750100>> :> 700328 @@
    <<400100, -750100, 400000, -750000>> :> 1400676 @@
    <<400100, -750100, 400003, -750000>> :> 1374342 @@
    <<400100, -750100, 400010, -750000>> :> 1314138 @@
    <<400100, -750100, 400050, -750050>> :> 700328 @@
    <<400100, -750100, 400100, -750100>> :> 0

haversine_distance(lat1, lon1, lat2, lon2) == HaversineTable[<<lat1, lon1, lat2, lon2>>]

\* Variant of nearest_from: the radius test is strict (distance < radius).
RECURSIVE nearest_from_open(_, _, _, _, _)
nearest_from_open(latitude, longitude, i, nearest_stop, min_distance) ==
    IF i > Len(stops) THEN nearest_stop
    ELSE LET distance == haversine_distance(latitude, longitude,
                                            stops[i].latitude, stops[i].longitude)
         IN  IF distance < radius_meters
                /\ (min_distance = None \/ distance < min_distance[1])
             THEN nearest_from_open(latitude, longitude, i + 1, i, Some(distance))
             ELSE nearest_from_open(latitude, longitude, i + 1, nearest_stop, min_distance)

\* Variant of nearest_from: the running minimum is compared with <=.
RECURSIVE nearest_from_last_wins(_, _, _, _, _)
nearest_from_last_wins(latitude, longitude, i, nearest_stop, min_distance) ==
    IF i > Len(stops) THEN nearest_stop
    ELSE LET distance == haversine_distance(latitude, longitude,
                                            stops[i].latitude, stops[i].longitude)
         IN  IF distance <= radius_meters
                /\ (min_distance = None \/ distance <= min_distance[1])
             THEN nearest_from_last_wins(latitude, longitude, i + 1, i, Some(distance))
             ELSE nearest_from_last_wins(latitude, longitude, i + 1, nearest_stop,
                                         min_distance)

\* Variant of nearest_from: the radius is not tested at all.
RECURSIVE nearest_from_any(_, _, _, _, _)
nearest_from_any(latitude, longitude, i, nearest_stop, min_distance) ==
    IF i > Len(stops) THEN nearest_stop
    ELSE LET distance == haversine_distance(latitude, longitude,
                                            stops[i].latitude, stops[i].longitude)
         IN  IF min_distance = None \/ distance < min_distance[1]
             THEN nearest_from_any(latitude, longitude, i + 1, i, Some(distance))
             ELSE nearest_from_any(latitude, longitude, i + 1, nearest_stop, min_distance)

\* find_nearest_stop's loop from stop i on; min_distance None is float('inf').
\* The result is the index of the stop in self.stops, 0 for None.
RECURSIVE nearest_from(_, _, _, _, _)
nearest_from(latitude, longitude, i, nearest_stop, min_distance) ==
    IF i > Len(stops) THEN nearest_stop
    ELSE LET distance == haversine_distance(latitude, longitude,
                                            stops[i].latitude, stops[i].longitude)
         IN  IF distance <= radius_meters
                /\ (min_distance = None \/ distance < min_distance[1])
             THEN nearest_from(latitude, longitude, i + 1, i, Some(distance))
             ELSE nearest_from(latitude, longitude, i + 1, nearest_stop, min_distance)

find_nearest_stop(latitude, longitude) == nearest_from(latitude, longitude, 1, 0, None)

-----------------------------------------------------------------------------
(* Ignore lists, common networks, vendor lookup *)

\* Variant of is_ignored: the BSSID is looked up as it is written.
is_ignored_as_written(identifier, identifier_type) ==
    IF identifier_type = BSSID THEN identifier \in ignored_macs
    ELSE IF identifier_type \in {SSID, PROBE} THEN identifier \in ignored_ssids
    ELSE FALSE

is_ignored(identifier, identifier_type) ==
    IF identifier_type = BSSID THEN upper(identifier) \in ignored_macs
    ELSE IF identifier_type \in {SSID, PROBE} THEN identifier \in ignored_ssids
    ELSE FALSE

\* Variant of is_common_ssid: exact match only.
is_common_ssid_exact(ssid) ==
    IF ssid = <<>> THEN FALSE ELSE ssid \in COMMON_PUBLIC_SSIDS

is_common_ssid(ssid) ==
    IF ssid = <<>> THEN FALSE
    ELSE IF ssid \in COMMON_PUBLIC_SSIDS THEN TRUE
    ELSE \E common \in COMMON_PUBLIC_SSIDS : lower(common) = lower(ssid)

lookup_manufacturer(mac) ==
    IF mac = <<>> \/ Len(mac) < 8 THEN "Unknown"
    ELSE LET mac_clean == replace(replace(upper(mac), "-", ":"), ".", ":")
             oui == prefix(mac_clean, 8)
         IN  IF oui \in DOMAIN OUI_DATABASE THEN OUI_DATABASE[oui] ELSE "Unknown"

-----------------------------------------------------------------------------
(* ThreatScorer *)

RECURSIVE SumOver(_, _)
SumOver(d, keys) ==
    IF keys = {} THEN 0
    ELSE LET k == CHOOSE x \in keys : TRUE IN d[k] + SumOver(d, keys \ {k})

\* sum(device.signal_by_stop.values())
signal_sum(device) == SumOver(device.signal_by_stop, DOMAIN device.signal_by_stop)

\* Factor 1: (num_stops / total_stops) * 0.4
stop_factor(device) ==
    IF Len(stops) > 0
    THEN (Cardinality(device.stops_seen) * Tenths(4)) \div Len(stops)
    ELSE 0

\* Factor 2
type_factor(device) ==
    IF device.identifier_type = BSSID THEN Tenths(2)
    ELSE IF device.identifier_type = PROBE THEN Hundredths(15)
    ELSE IF device.identifier_type = SSID THEN Hundredths(5)
    ELSE 0

\* Factor 3
common_factor(device) ==
    IF device.identifier_type \in {SSID, PROBE} /\ is_common_ssid(device.identifier)
    THEN 0 - Tenths(3)
    ELSE 0

\* Factor 4: avg_signal = sum / len compared with -50, -65, -75
signal_factor(device) ==
    LET n == Cardinality(DOMAIN device.signal_by_stop)
        total == signal_sum(device)
    IN  IF n = 0 THEN 0
        ELSE IF total > (0 - 50) * n THEN Tenths(2)
        ELSE IF total > (0 - 65) * n THEN Hundredths(15)
        ELSE IF total > (0 - 75) * n THEN Tenths(1)
        ELSE Hundredths(5)

\* Factor 5
vendor_factor(device) ==
    IF device.identifier_type = BSSID /\ device.manufacturer = "Unknown"
    THEN Tenths(1)
    ELSE 0

\* all_dates of Factor 6
all_dates(device) ==
    UNION {{date(device.timestamps_by_stop[s][i]) : i \in DOMAIN device.timestamps_by_stop[s]} :
             s \in DOMAIN device.timestamps_by_stop}

\* Factor 6
time_factor(device) ==
    IF Cardinality(DOMAIN device.timestamps_by_stop) >= 2
       /\ Cardinality(all_dates(device)) <= 2
       /\ Cardinality(device.stops_seen) >= 2
    THEN Tenths(1)
    ELSE 0

raw_score(device) ==
    stop_factor(device) + type_factor(device) + common_factor(device)
    + signal_factor(device) + vendor_factor(device) + time_factor(device)

\* Variant of clamp: min(1.0, score) only.
clamp_above(score) == IF score < ScoreScale THEN score ELSE ScoreScale

\* max(0.0, min(1.0, score))
clamp(score) ==
    LET m == IF score < ScoreScale THEN score ELSE ScoreScale
    IN  IF m > 0 THEN m ELSE 0

calculate_threat_score(device) == clamp(raw_score(device))

-----------------------------------------------------------------------------
(* Configuration *)

\* Stop(name, latitude, longitude); the description is never read by the engine.
Stop(name, latitude, longitude) ==
    [name |-> name, latitude |-> latitude, longitude |-> longitude]

\* A JSON value read for a coordinate: a number or a numeric string (float()
\* gives the number), another string (float() raises ValueError), or null
\* (float() raises TypeError).
Number(n) == [type |-> "number", value |-> n]
Text == [type |-> "str", value |-> 0]
Null == [type |-> "null", value |-> 0]

\* The exception, if any, that building Stop(...) from an entry raises: the
\* keyword arguments are evaluated in the order name, latitude, longitude; an
\* entry lacking a key (a field that is None here) raises KeyError.
stop_error(stop_data) ==
    IF stop_data.name = None THEN "KeyError"
    ELSE IF stop_data.latitude = None THEN "KeyError"
    ELSE IF stop_data.latitude[1].type = "str" THEN "ValueError"
    ELSE IF stop_data.latitude[1].type = "null" THEN "TypeError"
    ELSE IF stop_data.longitude = None THEN "KeyError"
    ELSE IF stop_data.longitude[1].type = "str" THEN "ValueError"
    ELSE IF stop_data.longitude[1].type = "null" THEN "TypeError"
    ELSE ""

\* The loop of _parse_stop_config over stops_data, self.stops being loaded so
\* far: KeyError and ValueError are caught and the entry is skipped, any other
\* exception leaves the loop and the constructor.
RECURSIVE load_stops(_, _)
load_stops(loaded, stops_data) ==
    IF stops_data = <<>> THEN [stops |-> loaded, raised |-> None]
    ELSE LET stop_data == Head(stops_data)
             error == stop_error(stop_data)
         IN  IF error = ""
             THEN load_stops(Append(loaded, Stop(stop_data.name[1], stop_data.latitude[1].value,
                                                 stop_data.longitude[1].value)),
                             Tail(stops_data))
             ELSE IF error \in {"KeyError", "ValueError"}
             THEN load_stops(loaded, Tail(stops_data))
             ELSE [stops |-> loaded, raised |-> Some(error)]

\* Variant of parse_stop_config: the list of entries is not cut to five.
parse_stop_config_uncut(stop_config) ==
    IF ~stop_config.enabled
    THEN [stops |-> <<>>, radius_meters |-> 100 * 1000, minimum_occurrences |-> 2,
          raised |-> None]
    ELSE LET loaded == load_stops(<<>>, stop_config.stops)
         IN  [stops |-> loaded.stops,
              radius_meters |-> stop_config.radius_meters,
              minimum_occurrences |-> stop_config.minimum_occurrences,
              raised |-> loaded.raised]

\* _parse_stop_config: the values of self.stops, self.radius_meters and
\* self.minimum_occurrences it leaves behind, and the exception it raises.
parse_stop_config(stop_config) ==
    IF ~stop_config.enabled
    THEN [stops |-> <<>>, radius_meters |-> 100 * 1000, minimum_occurrences |-> 2,
          raised |-> None]
    ELSE LET stops_data == IF Len(stop_config.stops) > 5
                           THEN SubSeq(stop_config.stops, 1, 5)
                           ELSE stop_config.stops
             loaded == load_stops(<<>>, stops_data)
         IN  [stops |-> loaded.stops,
              radius_meters |-> stop_config.radius_meters,
              minimum_occurrences |-> stop_config.minimum_occurrences,
              raised |-> loaded.raised]

\* _load_ignore_lists: empty entries are dropped, MACs are upper-cased.
load_ignored_macs(mac_list) == {upper(mac) : mac \in {m \in mac_list : m # <<>>}}

load_ignored_ssids(ssid_list) == {ssid \in ssid_list : ssid # <<>>}

-----------------------------------------------------------------------------
(* DeviceRegistry *)

WirelessDevice(key, identifier, identifier_type, manufacturer) ==
    [key |-> key,
     identifier |-> identifier,
     identifier_type |-> identifier_type,
     first_seen |-> None,
     last_seen |-> None,
     signal_strength |-> None,
     stops_seen |-> {},
     timestamps_by_stop |-> EmptyDict,
     signal_by_stop |-> EmptyDict,
     manufacturer |-> manufacturer,
     threat_score |-> 0]

\* position of device_key in self.devices, 0 when it is not a key
key_index(devs, key) ==
    IF \E i \in DOMAIN devs : devs[i].key = key
    THEN CHOOSE i \in DOMAIN devs : devs[i].key = key
    ELSE 0

\* if device_key not in self.devices: self.devices[device_key] = WirelessDevice(...)
ensure_device(devs, identifier, identifier_type, manufacturer) ==
    LET key == device_key(identifier_type, identifier)
    IN  IF key_index(devs, key) = 0
        THEN Append(devs, WirelessDevice(key, identifier, identifier_type, manufacturer))
        ELSE devs

\* Variant of add_stop: only the first stop of a record is kept.
add_stop_first(dev, stop_name) ==
    IF dev.stops_seen = {} THEN [dev EXCEPT !.stops_seen = {stop_name}] ELSE dev

\* dev.stops_seen.add(stop_name)
add_stop(dev, stop_name) == [dev EXCEPT !.stops_seen = @ \cup {stop_name}]

\* Variant of track_signal: the latest signal replaces the entry of the stop.
track_signal_latest(dev, stop_name, signal) ==
    IF signal = 0 THEN dev
    ELSE [dev EXCEPT
            !.signal_by_stop = DictSet(@, stop_name, signal),
            !.signal_strength = Some(signal)]

\* if signal: keep the strongest per stop, overwrite signal_strength
track_signal(dev, stop_name, signal) ==
    IF signal = 0 THEN dev
    ELSE [dev EXCEPT
            !.signal_by_stop =
                IF stop_name \notin DOMAIN @ \/ signal > @[stop_name]
                THEN DictSet(@, stop_name, signal)
                ELSE @,
            !.signal_strength = Some(signal)]

\* if stop.name not in dev.timestamps_by_stop: dev.timestamps_by_stop[stop.name] = []
open_timestamps(dev, stop_name) ==
    IF stop_name \in DOMAIN dev.timestamps_by_stop THEN dev
    ELSE [dev EXCEPT !.timestamps_by_stop = DictSet(@, stop_name, <<>>)]

\* Variant of append_timestamp: a timestamp already in the list is not appended.
append_timestamp_once(dev, stop_name, dt) ==
    IF dt = None THEN dev
    ELSE IF \E i \in DOMAIN dev.timestamps_by_stop[stop_name] :
                dev.timestamps_by_stop[stop_name][i] = dt[1]
    THEN dev
    ELSE [dev EXCEPT !.timestamps_by_stop[stop_name] = Append(@, dt[1])]

\* dev.timestamps_by_stop[stop.name].append(dt), dt an Optional that is appended
\* only when present
append_timestamp(dev, stop_name, dt) ==
    IF dt = None THEN dev
    ELSE [dev EXCEPT !.timestamps_by_stop[stop_name] = Append(@, dt[1])]

\* Update first/last seen
update_seen(dev, first_dt, last_dt) ==
    [dev EXCEPT
        !.first_seen = IF first_dt # None /\ (@ = None \/ first_dt[1] < @[1])
                       THEN first_dt ELSE @,
        !.last_seen = IF last_dt # None /\ (@ = None \/ last_dt[1] > @[1])
                      THEN last_dt ELSE @]

\* The "Track BSSID" block of analyze_kismet_database on self.devices
kismet_bssid(devs, stop_name, mac, signal, first_dt, last_dt) ==
    LET created == ensure_device(devs, mac, BSSID, lookup_manufacturer(mac))
        i == key_index(created, device_key(BSSID, mac))
        d1 == track_signal(add_stop(created[i], stop_name), stop_name, signal)
        d2 == append_timestamp(open_timestamps(d1, stop_name), stop_name, first_dt)
        d3 == IF last_dt # first_dt THEN append_timestamp(d2, stop_name, last_dt) ELSE d2
    IN  [created EXCEPT ![i] = update_seen(d3, first_dt, last_dt)]

\* The probed-SSID and advertised-SSID blocks of analyze_kismet_database
kismet_name(devs, stop_name, name, identifier_type, first_dt) ==
    LET created == ensure_device(devs, name, identifier_type, "")
        i == key_index(created, device_key(identifier_type, name))
        d1 == open_timestamps(add_stop(created[i], stop_name), stop_name)
    IN  [created EXCEPT ![i] = append_timestamp(d1, stop_name, first_dt)]

\* The body of the "for mac_tuple in macs" loop of analyze_cyt_logs, and of
\* add_manual_observation after validation
observe(devs, stop_name, identifier, identifier_type) ==
    LET created == ensure_device(devs, identifier, identifier_type, "")
        i == key_index(created, device_key(identifier_type, identifier))
    IN  [created EXCEPT ![i] = add_stop(created[i], stop_name)]

-----------------------------------------------------------------------------
(* ResultAssembler *)

\* the sort key (d.threat_score, len(d.stops_seen))
sort_key(dev) == <<dev.threat_score, Cardinality(dev.stops_seen)>>

\* tuple comparison a < b
key_less(a, b) == a[1] < b[1] \/ (a[1] = b[1] /\ a[2] < b[2])

\* Variant of insert_desc: x goes in front of the elements with an equal key
\* (an ascending sort that is then reversed).
insert_desc_reversing(devs, sorted, x) ==
    LET ahead == {j \in DOMAIN sorted :
                    key_less(sort_key(devs[x]), sort_key(devs[sorted[j]]))}
        k == Cardinality(ahead)
    IN  SubSeq(sorted, 1, k) \o <<x>> \o SubSeq(sorted, k + 1, Len(sorted))

\* One insertion of list.sort(key=..., reverse=True): x goes behind every
\* element whose key is not smaller than its own (the sort is stable).
insert_desc(devs, sorted, x) ==
    LET ahead == {j \in DOMAIN sorted :
                    ~key_less(sort_key(devs[sorted[j]]), sort_key(devs[x]))}
        k == Cardinality(ahead)
    IN  SubSeq(sorted, 1, k) \o <<x>> \o SubSeq(sorted, k + 1, Len(sorted))

\* results[key].sort(key=lambda d: (d.threat_score, len(d.stops_seen)), reverse=True)
\* on a list of references (positions in self.devices)
RECURSIVE sort_desc(_, _)
sort_desc(devs, refs) ==
    IF refs = <<>> THEN <<>>
    ELSE insert_desc(devs, sort_desc(devs, SubSeq(refs, 1, Len(refs) - 1)),
                     refs[Len(refs)])

\* Variant of is_reported: the number of stops is not tested.
is_reported_any_count(dev) == ~is_ignored(dev.identifier, dev.identifier_type)

\* the test that lets a device into the results
is_reported(dev) ==
    /\ ~is_ignored(dev.identifier, dev.identifier_type)
    /\ Cardinality(dev.stops_seen) >= minimum_occurrences

\* Variant of rescored: every record is given a fresh threat_score.
rescored_all(devs) ==
    [i \in DOMAIN devs |-> [devs[i] EXCEPT !.threat_score = calculate_threat_score(devs[i])]]

\* self.devices after the loop: the reported devices carry a fresh threat_score
rescored(devs) ==
    [i \in DOMAIN devs |->
        IF is_reported(devs[i])
        THEN [devs[i] EXCEPT !.threat_score = calculate_threat_score(devs[i])]
        ELSE devs[i]]

\* Variant of group_of: the type of the record is not looked at.
group_of_any_type(devs, identifier_type) ==
    SelectSeq([i \in DOMAIN devs |-> i], LAMBDA i : is_reported(devs[i]))

\* results[...] before sorting: the reported devices of one type, in dict order
group_of(devs, identifier_type) ==
    SelectSeq([i \in DOMAIN devs |-> i],
              LAMBDA i : is_reported(devs[i]) /\ devs[i].identifier_type = identifier_type)

-----------------------------------------------------------------------------
(* The engine's mutable state, and the handlers as functions of it *)

engine ==
    [devices |-> devices, bssids_by_stop |-> bssids_by_stop,
     ssids_by_stop |-> ssids_by_stop, probes_by_stop |-> probes_by_stop]

\* datetime.fromtimestamp(t) if t else None
to_datetime(t) == IF t # 0 THEN Some(t) ELSE None

\* Variant of kismet_row: the signal of the row is tracked on the PROBE record too.
kismet_row_names_with_signal(st, row) ==
    LET lat == row.point[1]
        lon == row.point[2]
        stop == IF lat # 0 /\ lon # 0 THEN find_nearest_stop(lat, lon) ELSE 0
    IN  IF stop = 0 THEN [st |-> st, count |-> 0]
        ELSE LET stop_name == stops[stop].name
                 first_dt == to_datetime(row.first_time)
                 last_dt == to_datetime(row.last_time)
                 json == row.device_json
                 tracked == row.mac # <<>>
                 probed == json.kind \in {"object", "beacon_array"} /\ json.probed_ssid # <<>>
                 advertised == json.kind = "object" /\ json.adv_ssid # <<>>
                 devs1 == IF tracked
                          THEN kismet_bssid(st.devices, stop_name, row.mac, row.signal,
                                            first_dt, last_dt)
                          ELSE st.devices
                 named == kismet_name(devs1, stop_name, json.probed_ssid, PROBE, first_dt)
                 devs2 == IF probed
                          THEN [named EXCEPT ![key_index(named, device_key(PROBE, json.probed_ssid))] =
                                    track_signal(@, stop_name, row.signal)]
                          ELSE devs1
                 devs3 == IF advertised
                          THEN kismet_name(devs2, stop_name, json.adv_ssid, SSID, first_dt)
                          ELSE devs2
             IN  [st |-> [devices |-> devs3,
                          bssids_by_stop |->
                              IF tracked THEN SetAdd(st.bssids_by_stop, stop_name, row.mac)
                              ELSE st.bssids_by_stop,
                          ssids_by_stop |->
                              IF advertised
                              THEN SetAdd(st.ssids_by_stop, stop_name, json.adv_ssid)
                              ELSE st.ssids_by_stop,
                          probes_by_stop |->
                              IF probed
                              THEN SetAdd(st.probes_by_stop, stop_name, json.probed_ssid)
                              ELSE st.probes_by_stop],
                  count |-> IF json.kind \in {"array", "beacon_array"} THEN 0 ELSE 1]

\* One iteration of the "for device in devices" loop of analyze_kismet_database:
\* the state the row leaves behind and what it adds to count.  A JSON text that
\* is not an object raises AttributeError at data.get, after the BSSID was
\* tracked and before count += 1; the loop's except clause then moves on.  An
\* object whose last_beaconed_ssid_record is not an object raises it at
\* advertised.get, after the probed SSID was tracked as well.
kismet_row(st, row) ==
    LET lat == row.point[1]
        lon == row.point[2]
        stop == IF lat # 0 /\ lon # 0 THEN find_nearest_stop(lat, lon) ELSE 0
    IN  IF stop = 0 THEN [st |-> st, count |-> 0]
        ELSE LET stop_name == stops[stop].name
                 first_dt == to_datetime(row.first_time)
                 last_dt == to_datetime(row.last_time)
                 json == row.device_json
                 tracked == row.mac # <<>>
                 probed == json.kind \in {"object", "beacon_array"} /\ json.probed_ssid # <<>>
                 advertised == json.kind = "object" /\ json.adv_ssid # <<>>
                 devs1 == IF tracked
                          THEN kismet_bssid(st.devices, stop_name, row.mac, row.signal,
                                            first_dt, last_dt)
                          ELSE st.devices
                 devs2 == IF probed
                          THEN kismet_name(devs1, stop_name, json.probed_ssid, PROBE,
                                           first_dt)
                          ELSE devs1
                 devs3 == IF advertised
                          THEN kismet_name(devs2, stop_name, json.adv_ssid, SSID, first_dt)
                          ELSE devs2
             IN  [st |-> [devices |-> devs3,
                          bssids_by_stop |->
                              IF tracked THEN SetAdd(st.bssids_by_stop, stop_name, row.mac)
                              ELSE st.bssids_by_stop,
                          ssids_by_stop |->
                              IF advertised
                              THEN SetAdd(st.ssids_by_stop, stop_name, json.adv_ssid)
                              ELSE st.ssids_by_stop,
                          probes_by_stop |->
                              IF probed
                              THEN SetAdd(st.probes_by_stop, stop_name, json.probed_ssid)
                              ELSE st.probes_by_stop],
                  count |-> IF json.kind \in {"array", "beacon_array"} THEN 0 ELSE 1]

\* the whole loop over the fetched rows
RECURSIVE kismet_rows(_, _)
kismet_rows(st, rows) ==
    IF rows = <<>> THEN [st |-> st, count |-> 0]
    ELSE LET one == kismet_row(st, Head(rows))
             rest == kismet_rows(one.st, Tail(rows))
         IN  [st |-> rest.st, count |-> one.count + rest.count]

\* ':'.join(mac_tuple).upper() for the tuple findall gives for one token: the
\* last repetition of the first group and the second group
log_mac(token) == upper(SubSeq(token, 13, 15) \o <<":">> \o SubSeq(token, 16, 17))

\* the "for mac_tuple in macs" loop of analyze_cyt_logs
RECURSIVE log_macs(_, _, _)
log_macs(st, stop_name, macs) ==
    IF macs = <<>> THEN st
    ELSE LET mac == log_mac(Head(macs))
         IN  log_macs([st EXCEPT
                          !.bssids_by_stop = SetAdd(@, stop_name, mac),
                          !.devices = observe(@, stop_name, mac, BSSID)],
                      stop_name, Tail(macs))

\* Variant of log_line: the GPS keyword is not asked for.
log_line_any_keyword(st, line) ==
    LET matched == line.gps # None /\ line.macs # <<>>
        lat == line.gps[1][1]
        lon == line.gps[1][2]
        valid == matched /\ (0 - 900000) <= lat /\ lat <= 900000
                         /\ (0 - 1800000) <= lon /\ lon <= 1800000
        stop == IF valid THEN find_nearest_stop(lat, lon) ELSE 0
    IN  IF stop = 0 THEN [st |-> st, count |-> 0]
        ELSE [st |-> log_macs(st, stops[stop].name, line.macs),
              count |-> Len(line.macs)]

\* One line of a log file
log_line(st, line) ==
    LET matched == line.keyword /\ line.gps # None /\ line.macs # <<>>
        lat == line.gps[1][1]
        lon == line.gps[1][2]
        valid == matched /\ (0 - 900000) <= lat /\ lat <= 900000
                         /\ (0 - 1800000) <= lon /\ lon <= 1800000
        stop == IF valid THEN find_nearest_stop(lat, lon) ELSE 0
    IN  IF stop = 0 THEN [st |-> st, count |-> 0]
        ELSE [st |-> log_macs(st, stops[stop].name, line.macs),
              count |-> Len(line.macs)]

\* the "for line in f" loop
RECURSIVE log_lines(_, _)
log_lines(st, lines) ==
    IF lines = <<>> THEN [st |-> st, count |-> 0]
    ELSE LET one == log_line(st, Head(lines))
             rest == log_lines(one.st, Tail(lines))
         IN  [st |-> rest.st, count |-> one.count + rest.count]

\* The lines "for line in f" yields before it ends or raises.  A line whose
\* bytes are not valid text raises UnicodeDecodeError when the chunk holding it
\* is decoded, before any line of that chunk is yielded; the files of the
\* model are shorter than one chunk.
read_lines(lines) ==
    IF \E j \in DOMAIN lines : "undecodable" \in DOMAIN lines[j] THEN <<>> ELSE lines

\* the "for log_file in log_files" loop; an exception raised while a file is
\* read is caught around the whole file
RECURSIVE log_files(_, _)
log_files(st, files) ==
    IF files = <<>> THEN [st |-> st, count |-> 0]
    ELSE LET one == log_lines(st, read_lines(Head(files)))
             rest == log_files(one.st, Tail(files))
         IN  [st |-> rest.st, count |-> one.count + rest.count]

\* Variant of manual_observation: the record is created before the identifier
\* type is validated.
manual_observation_eager(st, identifier, identifier_type, stop_name) ==
    LET valid_stops == {stops[i].name : i \in DOMAIN stops}
        added == [st EXCEPT !.devices = observe(@, stop_name, identifier, identifier_type)]
    IN  IF stop_name \notin valid_stops THEN [st |-> st, ok |-> FALSE]
        ELSE IF identifier_type = BSSID
        THEN [st |-> [added EXCEPT !.bssids_by_stop = SetAdd(@, stop_name, identifier)],
              ok |-> TRUE]
        ELSE IF identifier_type = SSID
        THEN [st |-> [added EXCEPT !.ssids_by_stop = SetAdd(@, stop_name, identifier)],
              ok |-> TRUE]
        ELSE IF identifier_type = PROBE
        THEN [st |-> [added EXCEPT !.probes_by_stop = SetAdd(@, stop_name, identifier)],
              ok |-> TRUE]
        ELSE [st |-> added, ok |-> FALSE]

\* Variant of manual_observation: the stop name is not looked up.
manual_observation_any_stop(st, identifier, identifier_type, stop_name) ==
    LET added == [st EXCEPT !.devices = observe(@, stop_name, identifier, identifier_type)]
    IN  IF identifier_type = BSSID
        THEN [st |-> [added EXCEPT !.bssids_by_stop = SetAdd(@, stop_name, identifier)],
              ok |-> TRUE]
        ELSE IF identifier_type = SSID
        THEN [st |-> [added EXCEPT !.ssids_by_stop = SetAdd(@, stop_name, identifier)],
              ok |-> TRUE]
        ELSE IF identifier_type = PROBE
        THEN [st |-> [added EXCEPT !.probes_by_stop = SetAdd(@, stop_name, identifier)],
              ok |-> TRUE]
        ELSE [st |-> st, ok |-> FALSE]

\* add_manual_observation: the state it leaves and the value it returns
manual_observation(st, identifier, identifier_type, stop_name) ==
    LET valid_stops == {stops[i].name : i \in DOMAIN stops}
        added == [st EXCEPT !.devices = observe(@, stop_name, identifier, identifier_type)]
    IN  IF stop_name \notin valid_stops THEN [st |-> st, ok |-> FALSE]
        ELSE IF identifier_type = BSSID
        THEN [st |-> [added EXCEPT !.bssids_by_stop = SetAdd(@, stop_name, identifier)],
              ok |-> TRUE]
        ELSE IF identifier_type = SSID
        THEN [st |-> [added EXCEPT !.ssids_by_stop = SetAdd(@, stop_name, identifier)],
              ok |-> TRUE]
        ELSE IF identifier_type = PROBE
        THEN [st |-> [added EXCEPT !.probes_by_stop = SetAdd(@, stop_name, identifier)],
              ok |-> TRUE]
        ELSE [st |-> st, ok |-> FALSE]

\* find_multi_stop_devices: self.devices after the call and the value returned,
\* whose lists hold references to the records (positions in self.devices)
multi_stop_devices(devs) ==
    LET scored == rescored(devs)
    IN  [devices |-> scored,
         results |-> [bssids |-> sort_desc(scored, group_of(scored, BSSID)),
                      ssids |-> sort_desc(scored, group_of(scored, SSID)),
                      probes |-> sort_desc(scored, group_of(scored, PROBE))]]

\* total_suspicious of run_analysis, from the value find_multi_stop_devices returned
total_suspicious(results) ==
    Len(results.bssids) + Len(results.ssids) + Len(results.probes)

\* main() without --demo, the configured data sources holding nothing: what it
\* raises or returns and which of run_analysis, generate_report and
\* generate_html_report it calls; report_format is --format.
main_outcome(stop_config, report_format) ==
    LET parsed == parse_stop_config(stop_config)
        refused == [raised |-> None, returned |-> Some(1), run_analysis |-> FALSE,
                    generate_report |-> FALSE, generate_html_report |-> FALSE]
    IN  IF parsed.raised # None
        THEN [refused EXCEPT !.raised = parsed.raised, !.returned = None]
        ELSE IF parsed.stops = <<>> THEN refused
        ELSE [raised |-> None, returned |-> Some(0), run_analysis |-> TRUE,
              generate_report |-> report_format \in {"text", "both"},
              generate_html_report |-> report_format \in {"html", "both"}]

-----------------------------------------------------------------------------
(* Bounds and inputs *)

\* a run makes at most this many handler calls
MaxCalls == 3

\* coordinates, in 1e-4 degree
PointA == <<400000, -750000>>
PointNear == <<400003, -750000>>
PointC == <<400010, -750000>>
PointFar == <<400050, -750050>>
PointB == <<400100, -750100>>
PointNull == <<0, 0>>
PointOutOfRange == <<950000, -750000>>
PointWest == <<400000, -1900000>>

StopEntry(name, point) ==
    [name |-> Some(name), latitude |-> Some(Number(point[1])),
     longitude |-> Some(Number(point[2]))]

\* The stop_comparison sections the analyzer is constructed from: two stops
\* 1.4 km apart with the default radius; and three stops, two of them at the
\* same coordinates, with a radius that is exactly the distance from PointNear
\* to them.
Configs ==
    {[enabled |-> TRUE, radius_meters |-> 100 * 1000, minimum_occurrences |-> 2,
      stops |-> <<StopEntry("A", PointA), StopEntry("B", PointB)>>],
     [enabled |-> TRUE, radius_meters |-> 33358, minimum_occurrences |-> 2,
      stops |-> <<StopEntry("A", PointA), StopEntry("A2", PointA),
                  StopEntry("B", PointB)>>]}

Mac1 == <<"0", "0", ":", "0", "3", ":", "9", "3", ":", "d", "d", ":", "e", "e", ":", "0", "1">>
Mac2 == <<"A", "A", ":", "B", "B", ":", "C", "C", ":", "D", "D", ":", "E", "E", ":", "0", "1">>
Mac3 == <<"a", "a", "-", "b", "b", "-", "c", "c", "-", "d", "d", "-", "e", "e", "-", "0", "2">>
NameCommon == <<"g", "u", "e", "s", "t">>
NamePlain == <<"h", "o", "m", "e">>
NoName == <<>>
Wifi == <<"W", "I", "F", "I">>

\* the contents of mac_list.json and ssid_list.json
IgnoreFiles ==
    {[mac_list |-> {}, ssid_list |-> {}],
     [mac_list |-> {Mac1, <<>>}, ssid_list |-> {NameCommon, <<>>}]}

\* datetimes: an instant of one day and one of the next day
Time1 == 1000
Time2 == SecondsPerDay + 1000

\* the device column of a Kismet row: NULL ("null"), text that is not JSON
\* ("malformed"), JSON that is not an object ("array"), an object with its two
\* nested records ("object"), or an object whose probed record is as expected
\* and whose beaconed record is not an object ("beacon_array")
Json(kind, probed_ssid, adv_ssid) ==
    [kind |-> kind, probed_ssid |-> probed_ssid, adv_ssid |-> adv_ssid]

NoJson == Json("null", NoName, NoName)

Row(mac, device_json, point, first_time, last_time, signal) ==
    [mac |-> mac, device_json |-> device_json, point |-> point,
     first_time |-> first_time, last_time |-> last_time, signal |-> signal]

\* The Kismet databases of the model, each the sequence of its rows:
\*  1  two radios, each seen at A and at B
\*  2  two access points and a client: their network names at A and at B
\*  3  rows away from every stop, or without coordinates
\*  4  one radio close to A; one radio at A and at B, without times or signal
KismetDatabases ==
    << <<Row(Mac1, NoJson, PointA, Time1, Time2, 0 - 40),
         Row(Mac2, NoJson, PointA, Time1, Time1, 0 - 40),
         Row(Mac1, NoJson, PointB, Time1, 0, 0 - 80),
         Row(Mac2, NoJson, PointB, 0, Time2, 0)>>,
       <<Row(Mac1, Json("object", NamePlain, NameCommon), PointA, Time1, Time1, 0),
         Row(Mac2, Json("object", NoName, NamePlain), PointA, Time1, Time1, 0),
         Row(Mac1, Json("object", NoName, NameCommon), PointB, Time2, Time2, 0),
         Row(Mac2, Json("object", NamePlain, NamePlain), PointB, Time2, Time2, 0)>>,
       <<Row(Mac1, Json("object", NamePlain, NameCommon), PointFar, Time1, Time2, 0 - 40),
         Row(Mac2, NoJson, PointNull, Time1, Time2, 0 - 40)>>,
       <<Row(Mac2, Json("malformed", NoName, NoName), PointNear, Time1, 0, 0 - 60),
         Row(Mac3, NoJson, PointA, 0, 0, 0),
         Row(Mac3, NoJson, PointB, 0, 0, 0)>> >>

Line(keyword, gps, macs) == [keyword |-> keyword, gps |-> gps, macs |-> macs]

\* a line whose bytes are not valid text
Undecodable == [keyword |-> FALSE, gps |-> None, macs |-> <<>>, undecodable |-> TRUE]

\* The log directories of the model, each the sequence of its files, each file
\* the sequence of its lines:
\*  1  two radios logged at A and at B
\*  2  lines without keyword, away from every stop, out of range, without
\*     coordinates or without MAC
\*  3  one radio logged at A
LogDirectories ==
    << << <<Line(TRUE, Some(PointA), <<Mac1, Mac3>>)>>,
          <<Line(TRUE, Some(PointB), <<Mac1, Mac3>>)>> >>,
       << <<Line(FALSE, Some(PointA), <<Mac1>>),
            Line(TRUE, Some(PointFar), <<Mac1>>),
            Line(TRUE, Some(PointOutOfRange), <<Mac1>>)>>,
          <<Line(TRUE, None, <<Mac1>>),
            Line(TRUE, Some(PointA), <<>>)>> >>,
       << <<Line(TRUE, Some(PointA), <<Mac2>>)>> >> >>

\* the manual observations of the model: <<identifier, identifier_type, stop_name>>
ManualObservations ==
    {<<Mac2, BSSID, "A">>, <<Mac2, BSSID, "B">>, <<NameCommon, SSID, "A">>,
     <<NameCommon, PROBE, "B">>, <<NamePlain, Wifi, "A">>, <<NamePlain, SSID, "Z">>}

-----------------------------------------------------------------------------
(* Operations *)

\* the analyzer used without the GUI
no_gui ==
    /\ button = "normal"
    /\ workers = <<>>
    /\ analyzers = 0
    /\ configured = 0
    /\ pending = 0

Init ==
    /\ no_gui
    /\ \E stop_config \in Configs :
          LET parsed == parse_stop_config(stop_config)
          IN  /\ stops = parsed.stops
              /\ radius_meters = parsed.radius_meters
              /\ minimum_occurrences = parsed.minimum_occurrences
    /\ \E files \in IgnoreFiles :
          /\ ignored_macs = load_ignored_macs(files.mac_list)
          /\ ignored_ssids = load_ignored_ssids(files.ssid_list)
    /\ bssids_by_stop = EmptyDict
    /\ ssids_by_stop = EmptyDict
    /\ probes_by_stop = EmptyDict
    /\ devices = <<>>
    /\ call = [op |-> "__init__", args |-> <<>>]
    /\ ret = None
    /\ calls = 0

\* the handler's effect on the engine's mutable state
becomes(st) ==
    /\ devices' = st.devices
    /\ bssids_by_stop' = st.bssids_by_stop
    /\ ssids_by_stop' = st.ssids_by_stop
    /\ probes_by_stop' = st.probes_by_stop

called(op, args) ==
    /\ calls < MaxCalls
    /\ calls' = calls + 1
    /\ call' = [op |-> op, args |-> args]
    /\ UNCHANGED <<config, gui>>

\* analyze_kismet_database(db_path), db_path naming database db
analyze_kismet_database(db) ==
    LET out == kismet_rows(engine, KismetDatabases[db])
    IN  /\ called("analyze_kismet_database", db)
        /\ becomes(out.st)
        /\ ret' = Some(out.count)

\* analyze_cyt_logs(log_directory), log_directory naming directory dir
analyze_cyt_logs(dir) ==
    LET out == log_files(engine, LogDirectories[dir])
    IN  /\ called("analyze_cyt_logs", dir)
        /\ becomes(out.st)
        /\ ret' = Some(out.count)

add_manual_observation(identifier, identifier_type, stop_name) ==
    LET out == manual_observation(engine, identifier, identifier_type, stop_name)
    IN  /\ called("add_manual_observation", <<identifier, identifier_type, stop_name>>)
        /\ becomes(out.st)
        /\ ret' = Some(out.ok)

find_multi_stop_devices ==
    LET out == multi_stop_devices(devices)
    IN  /\ called("find_multi_stop_devices", <<>>)
        /\ devices' = out.devices
        /\ UNCHANGED per_stop
        /\ ret' = Some(out.results)

Next ==
    \/ \E db \in DOMAIN KismetDatabases : analyze_kismet_database(db)
    \/ \E dir \in DOMAIN LogDirectories : analyze_cyt_logs(dir)
    \/ \E obs \in ManualObservations : add_manual_observation(obs[1], obs[2], obs[3])
    \/ find_multi_stop_devices

Spec == Init /\ [][Next]_vars

-----------------------------------------------------------------------------
(* The stop locator on its own: every list of up to MaxStops stops, three radii *)

MaxStops == 3

LocatorEntries ==
    {StopEntry("A", PointA), StopEntry("A2", PointA), StopEntry("C", PointC),
     StopEntry("B", PointB)}

LocatorConfigs ==
    [enabled : {TRUE},
     radius_meters : {33358, 100 * 1000, 111195},
     minimum_occurrences : {2},
     stops : UNION {[1..n -> LocatorEntries] : n \in 0..MaxStops}]

LocatorPoints == {PointA, PointNear, PointC, PointFar, PointB}

InitLocator ==
    /\ no_gui
    /\ \E stop_config \in LocatorConfigs :
          LET parsed == parse_stop_config(stop_config)
          IN  /\ stops = parsed.stops
              /\ radius_meters = parsed.radius_meters
              /\ minimum_occurrences = parsed.minimum_occurrences
    /\ ignored_macs = {}
    /\ ignored_ssids = {}
    /\ bssids_by_stop = EmptyDict
    /\ ssids_by_stop = EmptyDict
    /\ probes_by_stop = EmptyDict
    /\ devices = <<>>
    /\ call = [op |-> "__init__", args |-> <<>>]
    /\ ret = None
    /\ calls = 0

\* a call of find_nearest_stop(latitude, longitude); it returns the position of
\* the stop in self.stops, 0 for None
locate(point) ==
    /\ call' = [op |-> "find_nearest_stop", args |-> point]
    /\ ret' = Some(find_nearest_stop(point[1], point[2]))
    /\ UNCHANGED <<config, per_stop, devices, calls, gui>>

NextLocator == \E point \in LocatorPoints : locate(point)

SpecLocator == InitLocator /\ [][NextLocator]_vars

-----------------------------------------------------------------------------
(* Properties of the stop locator (checked under SpecLocator) *)

\* distance from a point to the stop at position i of self.stops
distance_to(point, i) ==
    haversine_distance(point[1], point[2], stops[i].latitude, stops[i].longitude)

located == call.op = "find_nearest_stop"

\* C5: find_nearest_stop returns no stop exactly when every configured stop is
\* farther than radius_meters from the query point; otherwise the stop it
\* returns is at most radius_meters away (boundary included) and no configured
\* stop is closer.
C5_NearestWithinRadius ==
    located =>
        LET point == call.args
            found == ret[1]
        IN  /\ (found = 0) <=> (\A i \in DOMAIN stops : distance_to(point, i) > radius_meters)
            /\ found # 0 =>
                  /\ found \in DOMAIN stops
                  /\ distance_to(point, found) <= radius_meters
                  /\ \A i \in DOMAIN stops :
                        distance_to(point, found) <= distance_to(point, i)

\* a stop exactly radius_meters away was returned although another stop is
\* configured out of reach
C5_Witness ==
    /\ located
    /\ ret[1] # 0
    /\ distance_to(call.args, ret[1]) = radius_meters
    /\ \E i \in DOMAIN stops : distance_to(call.args, i) > radius_meters

\* C6: among several stops at the same minimal distance, find_nearest_stop
\* returns the one that comes first in configured order.
C6_FirstOfEquidistant ==
    located /\ ret[1] # 0 =>
        \A i \in DOMAIN stops :
            distance_to(call.args, i) = distance_to(call.args, ret[1]) => ret[1] <= i

\* two stops at the same coordinates, the query exactly at them, and a third
\* stop configured before them
C6_Witness ==
    /\ located
    /\ ret[1] > 1
    /\ distance_to(call.args, ret[1]) = 0
    /\ \E i \in DOMAIN stops :
          /\ i > ret[1]
          /\ stops[i].name # stops[ret[1]].name
          /\ stops[i].latitude = stops[ret[1]].latitude
          /\ stops[i].longitude = stops[ret[1]].longitude

-----------------------------------------------------------------------------
(* Properties of the result assembler (checked under Spec) *)

\* what find_multi_stop_devices returns when it is called in the current state,
\* and the records as that call leaves them
found == multi_stop_devices(devices)

\* the records a returned list refers to
members(refs) == {refs[k] : k \in DOMAIN refs}

\* the records that appear in any of the three groups of a result
reported_in(results) ==
    members(results.bssids) \cup members(results.ssids) \cup members(results.probes)

\* the last call was find_multi_stop_devices: ret holds its result
assembled == call.op = "find_multi_stop_devices"

\* the identifier is on the ignore list that applies to its type
ignore_listed(dev) ==
    IF dev.identifier_type = BSSID
    THEN \E mac \in ignored_macs : upper(mac) = upper(dev.identifier)
    ELSE dev.identifier \in ignored_ssids

\* C1: no record seen at fewer than minimum_occurrences stops appears in any
\* group returned by find_multi_stop_devices, whatever its score would be.
C1_RareDeviceNeverReported ==
    \A out \in {found} :
        \A i \in reported_in(out.results) :
            Cardinality(devices[i].stops_seen) >= minimum_occurrences

\* find_multi_stop_devices has returned; a record seen at too few stops is left
\* out although it would outscore a record that is reported
C1_Witness ==
    /\ assembled
    /\ \E i \in DOMAIN devices, j \in reported_in(ret[1]) :
          /\ Cardinality(devices[i].stops_seen) < minimum_occurrences
          /\ ~ignore_listed(devices[i])
          /\ i \notin reported_in(ret[1])
          /\ calculate_threat_score(devices[i]) > devices[j].threat_score

\* C2: no record whose identifier is ignore-listed (a BSSID matching an entry
\* of the MAC ignore list case-insensitively, an SSID or PROBE equal to an entry
\* of the SSID ignore list) appears in any group returned by
\* find_multi_stop_devices.
C2_IgnoredDeviceNeverReported ==
    \A out \in {found} :
        \A i \in reported_in(out.results) : ~ignore_listed(devices[i])

\* find_multi_stop_devices has returned; a record seen at enough stops, whose
\* BSSID is written in lower case and listed in upper case, is left out
C2_Witness ==
    /\ assembled
    /\ reported_in(ret[1]) # {}
    /\ \E i \in DOMAIN devices :
          /\ devices[i].identifier_type = BSSID
          /\ devices[i].identifier \notin ignored_macs
          /\ ignore_listed(devices[i])
          /\ Cardinality(devices[i].stops_seen) >= minimum_occurrences
          /\ i \notin reported_in(ret[1])

\* the pairs <<earlier, later>> of positions of a list
pairs(refs) == {p \in (DOMAIN refs) \X (DOMAIN refs) : p[1] < p[2]}

\* group refs of records recs is ordered by non-increasing (threat_score, number
\* of stops seen), records equal on both in the order of their creation
ranked(recs, refs) ==
    \A p \in pairs(refs) :
        LET a == recs[refs[p[1]]]
            b == recs[refs[p[2]]]
        IN  \/ a.threat_score > b.threat_score
            \/ /\ a.threat_score = b.threat_score
               /\ Cardinality(a.stops_seen) > Cardinality(b.stops_seen)
            \/ /\ a.threat_score = b.threat_score
               /\ Cardinality(a.stops_seen) = Cardinality(b.stops_seen)
               /\ refs[p[1]] < refs[p[2]]

\* C3: each group returned by find_multi_stop_devices is ordered by
\* non-increasing (threat_score, number of stops seen), and records equal on
\* both keys keep the order in which they were created in the registry.
C3_GroupsRankedStably ==
    \A out \in {found} :
        /\ ranked(out.devices, out.results.bssids)
        /\ ranked(out.devices, out.results.ssids)
        /\ ranked(out.devices, out.results.probes)

\* find_multi_stop_devices has returned a group in which two records tie on
\* both keys and a record created later is ranked before an earlier one
C3_Witness ==
    /\ assembled
    /\ \E p \in pairs(ret[1].bssids) :
          /\ devices[ret[1].bssids[p[1]]].threat_score =
                devices[ret[1].bssids[p[2]]].threat_score
          /\ Cardinality(devices[ret[1].bssids[p[1]]].stops_seen) =
                Cardinality(devices[ret[1].bssids[p[2]]].stops_seen)
    /\ \E p \in pairs(ret[1].bssids) : ret[1].bssids[p[1]] > ret[1].bssids[p[2]]

\* C4: calculate_threat_score of every record is in [0,1], and so is every
\* stored threat_score.
C4_ScoreInUnitInterval ==
    \A i \in DOMAIN devices :
        /\ 0 <= calculate_threat_score(devices[i])
        /\ calculate_threat_score(devices[i]) <= ScoreScale
        /\ 0 <= devices[i].threat_score
        /\ devices[i].threat_score <= ScoreScale

\* one record whose factors sum to less than 0 and one whose stored score is 1
C4_Witness ==
    /\ \E i \in DOMAIN devices : raw_score(devices[i]) < 0
    /\ \E i \in DOMAIN devices : devices[i].threat_score = ScoreScale

-----------------------------------------------------------------------------
(* Properties of ingestion (checked under Spec) *)

\* The single inputs the ingestion properties range over, in every reachable
\* state: Kismet rows, log lines and manual observations.
AnyKismetRows ==
    [mac : {Mac2},
     device_json : {NoJson, Json("object", NamePlain, NameCommon)},
     point : {PointA, PointNear, PointC, PointFar, PointB},
     first_time : {0, Time1}, last_time : {Time2},
     signal : {0 - 40}]

AnyLogLines ==
    [keyword : {TRUE},
     gps : {Some(PointA), Some(PointNear), Some(PointC), Some(PointFar), Some(PointB)},
     macs : {<<Mac2, Mac3>>}]

AnyManualObservations ==
    {Mac1, NameCommon} \X {BSSID, SSID, PROBE, Wifi, lower(BSSID)} \X {"A", "B", "Z"}

\* every configured stop is farther than radius_meters from the point
out_of_reach(point) ==
    \A i \in DOMAIN stops : distance_to(point, i) > radius_meters

\* C7: a Kismet row or log line whose coordinates are farther than
\* radius_meters from every configured stop changes nothing: no record is
\* created or modified and the three per-stop sets are left as they were.
C7_OutOfReachChangesNothing ==
    /\ \A row \in AnyKismetRows :
          out_of_reach(row.point) => kismet_row(engine, row) = [st |-> engine, count |-> 0]
    /\ \A line \in AnyLogLines :
          out_of_reach(line.gps[1]) => log_line(engine, line) = [st |-> engine, count |-> 0]

\* the database whose rows are away from every stop or without coordinates was
\* analyzed after records had been collected, and counted nothing
C7_Witness ==
    /\ call.op = "analyze_kismet_database"
    /\ call.args = 3
    /\ \E i \in DOMAIN KismetDatabases[3] : out_of_reach(KismetDatabases[3][i].point)
    /\ ret = Some(0)
    /\ devices # <<>>
    /\ DOMAIN bssids_by_stop # {}

\* the record under a key, None when there is none
record_under(st, key) ==
    LET at == {i \in DOMAIN st.devices : st.devices[i].key = key}
    IN  IF at = {} THEN None ELSE Some(st.devices[CHOOSE i \in at : TRUE])

\* the stops_seen of an optional record, {} when there is none
stops_of(rec) == IF rec = None THEN {} ELSE rec[1].stops_seen

\* the length of an optional record's list of timestamps at a stop, 0 when
\* there is none
timestamps_of(rec, stop_name) ==
    IF rec = None \/ stop_name \notin DOMAIN rec[1].timestamps_by_stop THEN 0
    ELSE Len(rec[1].timestamps_by_stop[stop_name])

\* The record of an identifier after a sighting at stop_name was merged once
\* and twice into state before: its stops_seen is the same after the second
\* merge as after the first, and when the sighting is timed its list of
\* timestamps at the stop has grown at each merge, and has not when it is not.
merged_again(before, once, twice, identifier_type, identifier, stop_name, timed) ==
    \A key \in {device_key(identifier_type, identifier)} :
    \A rec0 \in {record_under(before, key)} :
    \A rec1 \in {record_under(once, key)} :
    \A rec2 \in {record_under(twice, key)} :
        /\ stops_of(rec1) = stops_of(rec0) \cup {stop_name}
        /\ stops_of(rec2) = stops_of(rec1)
        /\ IF timed
           THEN /\ timestamps_of(rec1, stop_name) > timestamps_of(rec0, stop_name)
                /\ timestamps_of(rec2, stop_name) > timestamps_of(rec1, stop_name)
           ELSE /\ timestamps_of(rec1, stop_name) = timestamps_of(rec0, stop_name)
                /\ timestamps_of(rec2, stop_name) = timestamps_of(rec1, stop_name)

\* C8: merging the same sighting a second time leaves the record's stops_seen
\* unchanged, while, when the sighting carries a timestamp, the length of
\* timestamps_by_stop[stop] strictly grows with each merge.  The BSSID sighting
\* of a Kismet row is timed by first_time or last_time, its SSID and PROBE
\* sightings by first_time; a manual observation carries no timestamp.
C8_MergeTwice ==
    /\ \A row \in {r \in AnyKismetRows : r.device_json # NoJson} :
          ~out_of_reach(row.point) =>
              \A once \in {kismet_row(engine, row).st} :
              \A twice \in {kismet_row(once, row).st} :
              \A stop_name \in {stops[find_nearest_stop(row.point[1], row.point[2])].name} :
                  /\ merged_again(engine, once, twice, BSSID, row.mac,
                                  stop_name, row.first_time # 0 \/ row.last_time # 0)
                  /\ row.device_json.probed_ssid # <<>> =>
                        merged_again(engine, once, twice,
                                     PROBE, row.device_json.probed_ssid,
                                     stop_name, row.first_time # 0)
                  /\ row.device_json.adv_ssid # <<>> =>
                        merged_again(engine, once, twice,
                                     SSID, row.device_json.adv_ssid,
                                     stop_name, row.first_time # 0)
    /\ \A obs \in AnyManualObservations :
          \A once \in {manual_observation(engine, obs[1], obs[2], obs[3])} :
              once.ok =>
                  \A twice \in {manual_observation(once.st, obs[1], obs[2], obs[3])} :
                      /\ twice.ok
                      /\ merged_again(engine, once.st, twice.st,
                                      obs[2], obs[1], obs[3], FALSE)

\* the same database was analyzed twice: a record seen at one stop holds the
\* same timestamp twice
C8_Witness ==
    /\ calls >= 2
    /\ call.op = "analyze_kismet_database"
    /\ \E i \in DOMAIN devices :
          \E s \in DOMAIN devices[i].timestamps_by_stop :
              /\ devices[i].stops_seen = {s}
              /\ Len(devices[i].timestamps_by_stop[s]) = 2
              /\ devices[i].timestamps_by_stop[s][1] = devices[i].timestamps_by_stop[s][2]

\* the identifier matches an entry of the common-network list, case-insensitively
common_network(identifier) ==
    \E common \in COMMON_PUBLIC_SSIDS : lower(common) = lower(identifier)

\* records a and b are SSID records seen at the same stops, at least
\* minimum_occurrences of them, with the same timestamps and signals; a names a
\* common network and b does not
common_pair(a, b) ==
    /\ a.identifier_type = SSID
    /\ b.identifier_type = SSID
    /\ common_network(a.identifier)
    /\ ~common_network(b.identifier)
    /\ a.stops_seen = b.stops_seen
    /\ Cardinality(a.stops_seen) >= minimum_occurrences
    /\ a.timestamps_by_stop = b.timestamps_by_stop
    /\ a.signal_by_stop = b.signal_by_stop

\* both records are in the ssids group and the first scores strictly lower
both_reported_first_lower(i, j) ==
    \A out \in {found} :
        /\ i \in members(out.results.ssids)
        /\ j \in members(out.results.ssids)
        /\ out.devices[i].threat_score < out.devices[j].threat_score

\* C9 as claimed: of two such SSID records, both appear in the ssids group and
\* the common one has the strictly lower threat_score.
C9_CommonPairReported ==
    \A i, j \in DOMAIN devices :
        common_pair(devices[i], devices[j]) => both_reported_first_lower(i, j)

\* C9 as amended: of two such SSID records neither of which is on the SSID
\* ignore list, both appear in the ssids group and the common one has the
\* strictly lower threat_score.
C9_CommonPairNotIgnored ==
    \A i, j \in DOMAIN devices :
        /\ common_pair(devices[i], devices[j])
        /\ devices[i].identifier \notin ignored_ssids
        /\ devices[j].identifier \notin ignored_ssids
        => both_reported_first_lower(i, j)

\* find_multi_stop_devices has returned both records of such a pair
C9_Witness ==
    /\ assembled
    /\ \E i, j \in members(ret[1].ssids) :
          /\ common_pair(devices[i], devices[j])
          /\ devices[i].threat_score < devices[j].threat_score
          /\ devices[i].threat_score > 0

\* C10: add_manual_observation reports failure when stop_name is not the name
\* of a configured stop or identifier_type is not one of BSSID, SSID, PROBE, and
\* a failing call leaves the records and the three per-stop sets as they were.
C10_ManualFailureChangesNothing ==
    \A obs \in AnyManualObservations :
        \A out \in {manual_observation(engine, obs[1], obs[2], obs[3])} :
            /\ (obs[3] \notin {stops[i].name : i \in DOMAIN stops}
                \/ obs[2] \notin {BSSID, SSID, PROBE}) => ~out.ok
            /\ ~out.ok => out.st = engine

\* a call for a configured stop with an unknown identifier type has failed
\* after records had been collected
C10_Witness ==
    /\ call.op = "add_manual_observation"
    /\ call.args[2] \notin {BSSID, SSID, PROBE}
    /\ call.args[3] \in {stops[i].name : i \in DOMAIN stops}
    /\ ret = Some(FALSE)
    /\ devices # <<>>

-----------------------------------------------------------------------------
(* Properties of the registry (checked under Spec) *)

\* the per-stop set that holds the identifiers of a type
by_stop_of(identifier_type) ==
    IF identifier_type = BSSID THEN bssids_by_stop
    ELSE IF identifier_type = SSID THEN ssids_by_stop
    ELSE probes_by_stop

\* the identifier of every record is in the per-stop set of its type at each
\* stop the record was seen at
counted_where_seen ==
    \A i \in DOMAIN devices :
        \A s \in devices[i].stops_seen :
            \A sets \in {by_stop_of(devices[i].identifier_type)} :
                /\ s \in DOMAIN sets
                /\ devices[i].identifier \in sets[s]

\* no step takes an identifier out of a per-stop set
kept(sets, sets_after) ==
    \A s \in DOMAIN sets : s \in DOMAIN sets_after /\ sets[s] \subseteq sets_after[s]

\* C11: the per-stop identifier sets contain every identifier ingested at that
\* stop, ignore-listed or seen at too few stops included: the identifier of
\* every record is in the set of its type at each stop it was seen at, no
\* operation removes an identifier, and find_multi_stop_devices leaves the
\* three sets as they were.
C11_PerStopSetsHoldEverything ==
    /\ [](counted_where_seen)
    /\ [][/\ kept(bssids_by_stop, bssids_by_stop')
          /\ kept(ssids_by_stop, ssids_by_stop')
          /\ kept(probes_by_stop, probes_by_stop')
          /\ call'.op = "find_multi_stop_devices" => UNCHANGED per_stop]_vars

\* find_multi_stop_devices has returned; an ignore-listed record and a record
\* seen at too few stops are in no group, and both are in the per-stop sets
C11_Witness ==
    /\ assembled
    /\ \E i, j \in DOMAIN devices \ reported_in(ret[1]) :
          /\ ignore_listed(devices[i])
          /\ Cardinality(devices[i].stops_seen) >= minimum_occurrences
          /\ ~ignore_listed(devices[j])
          /\ Cardinality(devices[j].stops_seen) = 1
          /\ \A k \in {i, j} : \A s \in devices[k].stops_seen :
                devices[k].identifier \in by_stop_of(devices[k].identifier_type)[s]

\* Manual observations whose identifiers contain the separator of the key:
\* a network named like the key of a radio, and the reverse.
Colon == <<":">>

KeyIdentifiers == {NamePlain, BSSID \o Colon \o NamePlain, SSID \o Colon \o NamePlain}

KeyObservations == KeyIdentifiers \X {BSSID, SSID, PROBE} \X {"A"}

NextRegistry ==
    \E obs \in KeyObservations : add_manual_observation(obs[1], obs[2], obs[3])

SpecRegistry == Init /\ [][NextRegistry]_vars

\* the positions of the records of a type and identifier
records_of(devs, identifier_type, identifier) ==
    {i \in DOMAIN devs : /\ devs[i].identifier_type = identifier_type
                         /\ devs[i].identifier = identifier}

\* every record is stored under the key of its type and identifier, and no two
\* records have the same type and identifier
one_record_each ==
    \A i \in DOMAIN devices :
        /\ devices[i].key = device_key(devices[i].identifier_type, devices[i].identifier)
        /\ records_of(devices, devices[i].identifier_type, devices[i].identifier) = {i}

\* a successful add_manual_observation has merged its sighting into the one
\* record of its type and identifier, and has left every other record alone
merged_into_own_record ==
    call'.op = "add_manual_observation" /\ ret' = Some(TRUE) =>
        \A own \in {records_of(devices', call'.args[2], call'.args[1])} :
            /\ Cardinality(own) = 1
            /\ \A i \in own : call'.args[3] \in devices'[i].stops_seen
            /\ Len(devices') >= Len(devices)
            /\ \A j \in DOMAIN devices : j \notin own => devices'[j] = devices[j]
            /\ \A j \in DOMAIN devices' : j \notin DOMAIN devices => j \in own

\* C12: two sightings are aggregated into the same record if and only if they
\* have the same identifier type and the same identifier, also when an
\* identifier contains the ':' separator: there is one record per type and
\* identifier, and a sighting changes or creates that record and no other.
C12_OneRecordPerTypeAndIdentifier ==
    /\ [](one_record_each)
    /\ [][merged_into_own_record]_vars

\* a network named "BSSID:home" and a radio named "home" have a record each,
\* and so have the network and the probe named "home"
C12_Witness ==
    /\ records_of(devices, SSID, BSSID \o Colon \o NamePlain) # {}
    /\ records_of(devices, BSSID, NamePlain) # {}
    /\ records_of(devices, SSID, NamePlain) # {}
    /\ Len(devices) = 3
    /\ call.op = "add_manual_observation"

\* C13 as claimed: every BSSID record, whichever source created it, has for
\* manufacturer what the vendor lookup gives for its address: the vendor of
\* its first three bytes, or "Unknown".
C13_BssidManufacturerResolved ==
    \A i \in DOMAIN devices :
        devices[i].identifier_type = BSSID =>
            devices[i].manufacturer = lookup_manufacturer(devices[i].identifier)

-----------------------------------------------------------------------------
(* Properties of the log source (checked under Spec) *)

\* the lines of all the files of a log directory
lines_of(dir) ==
    UNION {{LogDirectories[dir][f][n] : n \in DOMAIN LogDirectories[dir][f]} :
             f \in DOMAIN LogDirectories[dir]}

\* the line has a GPS keyword and a coordinate pair in range
located_line(line) ==
    /\ line.keyword
    /\ line.gps # None
    /\ (0 - 900000) <= line.gps[1][1] /\ line.gps[1][1] <= 900000
    /\ (0 - 1800000) <= line.gps[1][2] /\ line.gps[1][2] <= 1800000

\* the six-byte address a MAC token writes, in upper case with ':' separators
address_of(token) == replace(upper(token), "-", ":")

\* C14 as claimed: after analyze_cyt_logs, for every line with a GPS keyword
\* and a valid coordinate pair resolving to a stop, every MAC token of the line
\* has a BSSID record seen at that stop whose identifier is the token's full
\* six-byte address; two different addresses so have two different records.
C14_LoggedMacKeepsItsAddress ==
    call.op = "analyze_cyt_logs" =>
        \A line \in lines_of(call.args) :
            located_line(line) /\ ~out_of_reach(line.gps[1]) =>
                \A n \in DOMAIN line.macs :
                    \E i \in DOMAIN devices :
                        /\ devices[i].identifier_type = BSSID
                        /\ address_of(devices[i].identifier) = address_of(line.macs[n])
                        /\ stops[find_nearest_stop(line.gps[1][1], line.gps[1][2])].name
                              \in devices[i].stops_seen

\* log lines of every make: with and without keyword, coordinates and MAC
\* tokens, the coordinates in range or not
AnyLines ==
    [keyword : BOOLEAN,
     gps : {None, Some(PointA), Some(PointOutOfRange), Some(PointWest)},
     macs : {<<>>, <<Mac2>>}]

\* C15: a log line that lacks the GPS keyword, a coordinate pair with latitude
\* in [-90,90] and longitude in [-180,180], or a MAC token leaves the records
\* and the per-stop sets as they were.
C15_IncompleteLineChangesNothing ==
    \A line \in AnyLines :
        ~(located_line(line) /\ line.macs # <<>>) =>
            log_line(engine, line) = [st |-> engine, count |-> 0]

\* the directory whose lines each lack one of the three was analyzed after
\* records had been collected, and counted nothing
C15_Witness ==
    /\ call.op = "analyze_cyt_logs"
    /\ ret = Some(0)
    /\ devices # <<>>
    /\ \E line \in lines_of(call.args) : ~line.keyword /\ line.macs # <<>>
    /\ \E line \in lines_of(call.args) : line.keyword /\ line.gps = None
    /\ \E line \in lines_of(call.args) : line.keyword /\ line.macs = <<>>
    /\ \E line \in lines_of(call.args) :
          line.keyword /\ line.gps # None /\ ~located_line(line)

-----------------------------------------------------------------------------
(* Properties of the records' timestamps and signals (checked under Spec) *)

\* all the timestamps merged into a record: the entries of timestamps_by_stop
all_timestamps(dev) ==
    UNION {{dev.timestamps_by_stop[s][n] : n \in DOMAIN dev.timestamps_by_stop[s]} :
             s \in DOMAIN dev.timestamps_by_stop}

\* C16 as claimed: each record's first_seen is the minimum and last_seen the
\* maximum of all the timestamps merged into it, whatever its type, and both
\* are unset only when no timestamp was merged.
C16_SeenSpansTimestamps ==
    \A i \in DOMAIN devices :
        \A merged \in {all_timestamps(devices[i])} :
            IF merged = {}
            THEN devices[i].first_seen = None /\ devices[i].last_seen = None
            ELSE /\ devices[i].first_seen # None
                 /\ devices[i].first_seen[1] \in merged
                 /\ \A t \in merged : devices[i].first_seen[1] <= t
                 /\ devices[i].last_seen # None
                 /\ devices[i].last_seen[1] \in merged
                 /\ \A t \in merged : devices[i].last_seen[1] >= t

\* the stops at which a record has at least one recorded timestamp
timed_stops(dev) ==
    {s \in DOMAIN dev.timestamps_by_stop : dev.timestamps_by_stop[s] # <<>>}

\* C17 as claimed: the same-day term is added exactly when the record has
\* recorded timestamps at 2 or more distinct stops, the calendar dates of all
\* its timestamps are at most 2, and it was seen at 2 or more stops; a record
\* without any recorded timestamp never receives it.
C17_SameDayTermNeedsTimestamps ==
    \A i \in DOMAIN devices :
        time_factor(devices[i]) = Tenths(1) <=>
            /\ Cardinality(timed_stops(devices[i])) >= 2
            /\ Cardinality(all_dates(devices[i])) <= 2
            /\ Cardinality(devices[i].stops_seen) >= 2

\* Kismet rows of one radio at a stop with a signal weaker than, equal to and
\* stronger than those of the databases, and without signal (0 or NULL)
SignalRows ==
    [mac : {Mac2}, device_json : {NoJson}, point : {PointA, PointB},
     first_time : {Time1}, last_time : {Time1},
     signal : {0, 0 - 30, 0 - 40, 0 - 90}]

\* the signal_by_stop of an optional record, empty when there is none
signals_of(rec) == IF rec = None THEN EmptyDict ELSE rec[1].signal_by_stop

\* signal_by_stop after a sighting at stop_name with a signal (0: without) was
\* merged: the greater of the entry before and the signal
strongest_kept(before, after, stop_name, signal) ==
    /\ \A s \in DOMAIN before : s # stop_name => s \in DOMAIN after /\ after[s] = before[s]
    /\ \A s \in DOMAIN after : s # stop_name => s \in DOMAIN before
    /\ IF signal = 0
       THEN /\ stop_name \in DOMAIN after <=> stop_name \in DOMAIN before
            /\ stop_name \in DOMAIN before => after[stop_name] = before[stop_name]
       ELSE /\ stop_name \in DOMAIN after
            /\ after[stop_name] >= signal
            /\ stop_name \in DOMAIN before => after[stop_name] >= before[stop_name]
            /\ \/ after[stop_name] = signal
               \/ stop_name \in DOMAIN before /\ after[stop_name] = before[stop_name]

\* an operation other than analyze_kismet_database merges sightings without
\* signal: it leaves every signal_by_stop as it was and opens none
signals_left ==
    call'.op # "analyze_kismet_database" =>
        \A i \in DOMAIN devices' :
            devices'[i].signal_by_stop =
                IF i \in DOMAIN devices THEN devices[i].signal_by_stop ELSE EmptyDict

\* C18: for every record and stop, signal_by_stop[stop] is the numerically
\* greatest signal among the sightings with a signal merged for the record at
\* the stop, and is absent only if none carried one: no entry exists at first,
\* each sighting with a signal leaves the greater of the entry and its signal,
\* and a sighting without signal leaves the entry as it was.  A signal column
\* that is 0 or NULL is a sighting without signal.
C18_StrongestSignalKept ==
    /\ [](\A row \in SignalRows :
            \A stop \in {find_nearest_stop(row.point[1], row.point[2])} :
                stop # 0 =>
                    \A key \in {device_key(BSSID, row.mac)} :
                        strongest_kept(signals_of(record_under(engine, key)),
                                       signals_of(record_under(kismet_row(engine, row).st, key)),
                                       stops[stop].name, row.signal))
    /\ [][signals_left]_vars

\* a radio was seen at one stop with a signal and then with a weaker one, the
\* stronger is kept; at another stop it was seen without signal only
C18_Witness ==
    /\ call.op = "analyze_kismet_database"
    /\ \E i \in DOMAIN devices :
          /\ devices[i].signal_strength # None
          /\ devices[i].signal_by_stop # EmptyDict
          /\ \E s \in DOMAIN devices[i].signal_by_stop :
                devices[i].signal_by_stop[s] > devices[i].signal_strength[1]
          /\ \E s \in devices[i].stops_seen : s \notin DOMAIN devices[i].signal_by_stop

-----------------------------------------------------------------------------
(* Construction from a configuration: every list of up to MaxEntries entries *)

MaxEntries == 3

\* entries of stop_comparison.stops: two valid ones, one without name, one
\* without latitude, one whose latitude is not numeric, one whose longitude is
\* null, one with latitude 95 and one with longitude -190
ConfigEntries ==
    {StopEntry("A", PointA),
     StopEntry("B", PointB),
     [StopEntry("C", PointC) EXCEPT !.name = None],
     [StopEntry("D", PointC) EXCEPT !.latitude = None],
     [StopEntry("E", PointC) EXCEPT !.latitude = Some(Text)],
     [StopEntry("F", PointC) EXCEPT !.longitude = Some(Null)],
     StopEntry("N", PointOutOfRange),
     StopEntry("W", PointWest)}

StopConfigs ==
    [enabled : {TRUE},
     radius_meters : {100 * 1000},
     minimum_occurrences : {2},
     stops : UNION {[1..n -> ConfigEntries] : n \in 0..MaxEntries}]

ReportFormats == {"text", "html", "both"}

\* the process before it constructs an analyzer
InitConfig ==
    /\ no_gui
    /\ stops = <<>>
    /\ radius_meters = 100 * 1000
    /\ minimum_occurrences = 2
    /\ ignored_macs = {}
    /\ ignored_ssids = {}
    /\ bssids_by_stop = EmptyDict
    /\ ssids_by_stop = EmptyDict
    /\ probes_by_stop = EmptyDict
    /\ devices = <<>>
    /\ call = [op |-> "", args |-> <<>>]
    /\ ret = None
    /\ calls = 0

\* the fields _parse_stop_config has assigned when __init__ returns or raises
constructed(stop_config) ==
    LET parsed == parse_stop_config(stop_config)
    IN  /\ calls = 0
        /\ calls' = 1
        /\ stops' = parsed.stops
        /\ radius_meters' = parsed.radius_meters
        /\ minimum_occurrences' = parsed.minimum_occurrences
        /\ UNCHANGED <<ignored_macs, ignored_ssids, per_stop, devices, gui>>

\* StopComparisonAnalyzer(config_path), the file holding stop_config; ret is
\* the exception raised, None when construction completes
construct(stop_config) ==
    /\ constructed(stop_config)
    /\ call' = [op |-> "__init__", args |-> stop_config]
    /\ ret' = parse_stop_config(stop_config).raised

\* main() on a configuration file holding stop_config
main(stop_config, report_format) ==
    /\ constructed(stop_config)
    /\ call' = [op |-> "main", args |-> <<stop_config, report_format>>]
    /\ ret' = Some(main_outcome(stop_config, report_format))

NextConfig ==
    \/ \E stop_config \in StopConfigs : construct(stop_config)
    \/ \E stop_config \in StopConfigs, report_format \in ReportFormats :
          main(stop_config, report_format)

SpecConfig == InitConfig /\ [][NextConfig]_vars

\* the entry has its three keys, numeric coordinates, a latitude in [-90,90]
\* and a longitude in [-180,180]
valid_entry(stop_data) ==
    /\ stop_data.name # None
    /\ stop_data.latitude # None
    /\ stop_data.longitude # None
    /\ stop_data.latitude[1].type = "number"
    /\ stop_data.longitude[1].type = "number"
    /\ (0 - 900000) <= stop_data.latitude[1].value
    /\ stop_data.latitude[1].value <= 900000
    /\ (0 - 1800000) <= stop_data.longitude[1].value
    /\ stop_data.longitude[1].value <= 1800000

\* the stops of the valid entries of a list, in order
RECURSIVE valid_stops_of(_)
valid_stops_of(stops_data) ==
    IF stops_data = <<>> THEN <<>>
    ELSE LET stop_data == Head(stops_data)
             rest == valid_stops_of(Tail(stops_data))
         IN  IF valid_entry(stop_data)
             THEN <<Stop(stop_data.name[1], stop_data.latitude[1].value,
                         stop_data.longitude[1].value)>> \o rest
             ELSE rest

\* C19 as claimed: each invalid stop entry (a missing name, latitude or
\* longitude, a non-numeric coordinate, a latitude outside [-90,90] or a
\* longitude outside [-180,180]) is skipped on its own: construction
\* completes and self.stops holds the valid entries, all of them.
C19_InvalidEntriesSkipped ==
    call.op = "__init__" =>
        /\ ret = None
        /\ stops = valid_stops_of(call.args.stops)

\* C20 as claimed: when fewer than 2 stops are loaded, main returns its error
\* outcome without calling run_analysis, generate_report or
\* generate_html_report.
C20_FewerThanTwoStopsRefused ==
    call.op = "main" /\ ret[1].raised = None /\ Len(stops) < 2 =>
        /\ ret[1].returned = Some(1)
        /\ ~ret[1].run_analysis
        /\ ~ret[1].generate_report
        /\ ~ret[1].generate_html_report

-----------------------------------------------------------------------------
(* Construction from a long configuration: up to MaxListed entries *)

MaxListed == 6

\* the name of the entry at each position of the list
ListedNames == <<"S1", "S2", "S3", "S4", "S5", "S6", "S7", "S8">>

\* stop_comparison.stops: at each position a valid entry at one of two places,
\* or an entry without latitude
ListedStops ==
    UNION {[1..n -> {"PointA", "PointB", "KeyError"}] : n \in 0..MaxListed}

ListedEntry(i, kind) ==
    IF kind = "PointA" THEN StopEntry(ListedNames[i], PointA)
    ELSE IF kind = "PointB" THEN StopEntry(ListedNames[i], PointB)
    ELSE [StopEntry(ListedNames[i], PointC) EXCEPT !.latitude = None]

LongConfigs ==
    {[enabled |-> TRUE, radius_meters |-> 100 * 1000, minimum_occurrences |-> 2,
      stops |-> [i \in DOMAIN kinds |-> ListedEntry(i, kinds[i])]] : kinds \in ListedStops}

NextLong == \E stop_config \in LongConfigs : construct(stop_config)

SpecLong == InitConfig /\ [][NextLong]_vars

\* the positions of the list whose entry has the name
listed_at(stops_data, name) == {j \in DOMAIN stops_data : stops_data[j].name = Some(name)}

\* C21: the analyzer holds at most 5 stops; each loaded stop is one of the
\* first 5 configured entries, every loadable entry among the first 5 is
\* loaded once, and the loaded stops follow one another in configured order.
C21_FirstFiveInOrder ==
    call.op = "__init__" =>
        \A stops_data \in {call.args.stops} :
            /\ Len(stops) <= 5
            /\ \A i \in DOMAIN stops :
                  \E j \in listed_at(stops_data, stops[i].name) :
                      /\ j <= 5
                      /\ stop_error(stops_data[j]) = ""
                      /\ stops[i] = Stop(stops_data[j].name[1],
                                         stops_data[j].latitude[1].value,
                                         stops_data[j].longitude[1].value)
            /\ \A j \in DOMAIN stops_data :
                  j <= 5 /\ stop_error(stops_data[j]) = "" =>
                      Cardinality({i \in DOMAIN stops :
                                      stops[i].name = stops_data[j].name[1]}) = 1
            /\ \A i, k \in DOMAIN stops :
                  i < k => \A j \in listed_at(stops_data, stops[i].name),
                              l \in listed_at(stops_data, stops[k].name) : j < l

\* six entries were configured, the sixth loadable, and five stops are held
C21_Witness ==
    /\ call.op = "__init__"
    /\ Len(call.args.stops) > 5
    /\ stop_error(call.args.stops[6]) = ""
    /\ stop_error(call.args.stops[2]) # ""
    /\ Len(stops) = 4

-----------------------------------------------------------------------------
(* One Kismet database of up to MaxRows rows, each with any device column *)

MaxRows == 2

BatchRows ==
    [mac : {Mac1, Mac2},
     device_json : {NoJson,
                    Json("malformed", NoName, NoName),
                    Json("array", NoName, NoName),
                    Json("object", NamePlain, NameCommon),
                    Json("beacon_array", NamePlain, NoName)},
     point : {PointA, PointB},
     first_time : {Time1},
     last_time : {Time1},
     signal : {0 - 40}]

Batches == UNION {[1..n -> BatchRows] : n \in 0..MaxRows}

\* analyze_kismet_database(db_path) on a fresh analyzer, the database holding rows
analyze_kismet_rows(rows) ==
    LET out == kismet_rows(engine, rows)
    IN  /\ calls = 0
        /\ calls' = 1
        /\ call' = [op |-> "analyze_kismet_database", args |-> rows]
        /\ UNCHANGED <<config, gui>>
        /\ becomes(out.st)
        /\ ret' = Some(out.count)

NextKismet == \E rows \in Batches : analyze_kismet_rows(rows)

SpecKismet == Init /\ [][NextKismet]_vars

\* the name of the stop a point is bound to
stop_name_at(point) == stops[find_nearest_stop(point[1], point[2])].name

\* the SSID and PROBE records, in dict order
name_records(devs) == SelectSeq(devs, LAMBDA dev : dev.identifier_type # BSSID)

\* the state holds the BSSID sighting of the row
bssid_sighted(st, row) ==
    /\ stop_name_at(row.point) \in DOMAIN st.bssids_by_stop
    /\ row.mac \in st.bssids_by_stop[stop_name_at(row.point)]
    /\ stop_name_at(row.point) \in stops_of(record_under(st, device_key(BSSID, row.mac)))

\* processed on the present state, the row yields its BSSID sighting and
\* neither an SSID nor a PROBE sighting
bssid_sighting_only(row) ==
    \A out \in {kismet_row(engine, row).st} :
        /\ bssid_sighted(out, row)
        /\ out.ssids_by_stop = ssids_by_stop
        /\ out.probes_by_stop = probes_by_stop
        /\ name_records(out.devices) = name_records(devices)

\* every row of the database analyzed left its BSSID sighting, and every row
\* with a well-formed blob its PROBE and SSID sightings
every_row_processed ==
    call.op = "analyze_kismet_database" =>
        \A i \in DOMAIN call.args :
            \A row \in {call.args[i]} :
                /\ bssid_sighted(engine, row)
                /\ row.device_json.kind = "object" =>
                      /\ stop_name_at(row.point) \in DOMAIN probes_by_stop
                      /\ row.device_json.probed_ssid
                            \in probes_by_stop[stop_name_at(row.point)]
                      /\ stop_name_at(row.point) \in DOMAIN ssids_by_stop
                      /\ row.device_json.adv_ssid
                            \in ssids_by_stop[stop_name_at(row.point)]

\* C22 as claimed: a row whose JSON blob is missing, malformed or of an
\* unexpected shape yields no PROBE and no SSID sighting but still its BSSID
\* sighting, and no row's failure keeps a later row from being processed.
C22_BadBlobBssidOnly ==
    /\ \A row \in {r \in BatchRows : r.device_json.kind # "object"} :
          bssid_sighting_only(row)
    /\ every_row_processed

-----------------------------------------------------------------------------
(* One log directory of up to MaxFiles files of up to MaxLines lines *)

MaxFiles == 2

MaxLines == 2

\* a line logging one radio at A, one logging another at B, a line without
\* keyword, coordinates or MAC, and a line that cannot be decoded
FileLines ==
    {Line(TRUE, Some(PointA), <<Mac1>>),
     Line(TRUE, Some(PointB), <<Mac2>>),
     Line(FALSE, None, <<>>),
     Undecodable}

Files == UNION {[1..n -> FileLines] : n \in 0..MaxLines}

Directories == UNION {[1..n -> Files] : n \in 0..MaxFiles}

\* analyze_cyt_logs(log_directory) on a fresh analyzer, the directory holding files
analyze_log_files(files) ==
    LET out == log_files(engine, files)
    IN  /\ calls = 0
        /\ calls' = 1
        /\ call' = [op |-> "analyze_cyt_logs", args |-> files]
        /\ UNCHANGED <<config, gui>>
        /\ becomes(out.st)
        /\ ret' = Some(out.count)

NextLogs == \E files \in Directories : analyze_log_files(files)

SpecLogs == Init /\ [][NextLogs]_vars

\* the state holds the sightings of every MAC token of the line
line_sighted(st, line) ==
    \A stop_name \in {stop_name_at(line.gps[1])} :
        \A k \in DOMAIN line.macs :
            /\ stop_name \in DOMAIN st.bssids_by_stop
            /\ log_mac(line.macs[k]) \in st.bssids_by_stop[stop_name]
            /\ stop_name \in stops_of(record_under(st, device_key(BSSID, log_mac(line.macs[k]))))

\* C23 as claimed: an unreadable or garbled line is skipped and never aborts
\* the iteration: every later line of the same file, and every line of every
\* other file, is still processed and leaves its sightings.
C23_UnreadableLineSkipped ==
    call.op = "analyze_cyt_logs" =>
        \A i \in DOMAIN call.args :
            \A j \in DOMAIN call.args[i] :
                \A line \in {call.args[i][j]} :
                    "undecodable" \notin DOMAIN line /\ located_line(line) =>
                        line_sighted(engine, line)

\* the lines of every file without an undecodable line leave their sightings
other_files_processed ==
    call.op = "analyze_cyt_logs" =>
        \A i \in DOMAIN call.args :
            read_lines(call.args[i]) # <<>> =>
                \A j \in DOMAIN call.args[i] :
                    located_line(call.args[i][j]) => line_sighted(engine, call.args[i][j])

-----------------------------------------------------------------------------
(* The GUI (cyt_gui.py): the Stop Comparison button and its worker threads *)

\* at most this many comparisons are launched
MaxRuns == 3

\* the numbers of stops a saved config.json can hold
ConfiguredCounts == 0..3

\* A worker is at one of these places of _stop_comparison_background:
\*   "start"       the thread is started, StopComparisonAnalyzer('config.json') not yet called
\*   "ingesting"   in run_analysis, inside analyze_kismet_database / analyze_cyt_logs
\*   "assembling"  in run_analysis, inside find_multi_stop_devices
\*   "reporting"   in generate_report, which calls find_multi_stop_devices
\*   "html"        in generate_html_report, which calls it again
\*   "scheduling"  about to queue _ask_open_stop_report with root.after
\*   "except"      in the except clause
\*   "finally"     about to re-enable the button
\*   "done"        the thread has ended
Worker(pc, analyzer) == [pc |-> pc, analyzer |-> analyzer]

InitGui ==
    /\ stops = <<>>
    /\ radius_meters = 100 * 1000
    /\ minimum_occurrences = 2
    /\ ignored_macs = {}
    /\ ignored_ssids = {}
    /\ bssids_by_stop = EmptyDict
    /\ ssids_by_stop = EmptyDict
    /\ probes_by_stop = EmptyDict
    /\ devices = <<>>
    /\ call = [op |-> "", args |-> <<>>]
    /\ ret = None
    /\ calls = 0
    /\ button = "normal"
    /\ workers = <<>>
    /\ analyzers = 0
    /\ configured \in ConfiguredCounts
    /\ pending = 0

\* an event of the GUI: the analyzer variables of the module are not involved,
\* each worker holding its analyzer in a local variable
gui_event(op, shown) ==
    /\ call' = [op |-> op, args |-> <<>>]
    /\ ret' = shown
    /\ UNCHANGED <<config, per_stop, devices, calls>>

\* Variant of stop_comparison_threaded: the button is left enabled.
stop_comparison_threaded_enabled ==
    /\ button = "normal"
    /\ Len(workers) < MaxRuns
    /\ IF configured < 2
       THEN /\ gui_event("stop_comparison_threaded", Some("Configuration Required"))
            /\ UNCHANGED gui
       ELSE /\ gui_event("stop_comparison_threaded", None)
            /\ workers' = Append(workers, Worker("start", 0))
            /\ UNCHANGED <<button, analyzers, configured, pending>>

\* stop_comparison_threaded, the command of the button: Tk runs it on the
\* main thread, and only while the button is not disabled
stop_comparison_threaded ==
    /\ button = "normal"
    /\ Len(workers) < MaxRuns
    /\ IF configured < 2
       THEN /\ gui_event("stop_comparison_threaded", Some("Configuration Required"))
            /\ UNCHANGED gui
       ELSE /\ gui_event("stop_comparison_threaded", None)
            /\ button' = "disabled"
            /\ workers' = Append(workers, Worker("start", 0))
            /\ UNCHANGED <<analyzers, configured, pending>>

\* worker w moves on to place pc
moves(w, pc) ==
    /\ workers' = [workers EXCEPT ![w].pc = pc]
    /\ gui_event("_stop_comparison_background", Some(pc))

\* analyzer = StopComparisonAnalyzer('config.json'): a new instance, or an exception
background_construct(w) ==
    /\ workers[w].pc = "start"
    /\ \/ /\ analyzers' = analyzers + 1
          /\ workers' = [workers EXCEPT ![w] = Worker("ingesting", analyzers + 1)]
          /\ gui_event("_stop_comparison_background", Some("ingesting"))
       \/ /\ moves(w, "except")
          /\ UNCHANGED analyzers
    /\ UNCHANGED <<button, configured, pending>>

\* the statements of the try block after the construction, one by one; the
\* report generators may raise
background_step(w) ==
    /\ \/ workers[w].pc = "ingesting" /\ moves(w, "assembling")
       \/ workers[w].pc = "assembling" /\ moves(w, "reporting")
       \/ workers[w].pc = "reporting" /\ (moves(w, "html") \/ moves(w, "except"))
       \/ workers[w].pc = "html" /\ (moves(w, "scheduling") \/ moves(w, "except"))
       \/ workers[w].pc = "except" /\ moves(w, "finally")
    /\ UNCHANGED <<button, analyzers, configured, pending>>

\* self.root.after(0, lambda: self._ask_open_stop_report(...))
background_schedule(w) ==
    /\ workers[w].pc = "scheduling"
    /\ moves(w, "finally")
    /\ pending' = pending + 1
    /\ UNCHANGED <<button, analyzers, configured>>

\* finally: self.stop_compare_btn.config(state='normal', ...), and the thread ends
background_finally(w) ==
    /\ workers[w].pc = "finally"
    /\ moves(w, "done")
    /\ button' = "normal"
    /\ UNCHANGED <<analyzers, configured, pending>>

\* the main loop runs a queued _ask_open_stop_report
ask_open_stop_report ==
    /\ pending > 0
    /\ pending' = pending - 1
    /\ gui_event("_ask_open_stop_report", None)
    /\ UNCHANGED <<button, workers, analyzers, configured>>

\* the save button of configure_stops writes config.json with count stops
save_config(count) ==
    /\ configured' = count
    /\ gui_event("configure_stops", None)
    /\ UNCHANGED <<button, workers, analyzers, pending>>

NextGui ==
    \/ stop_comparison_threaded
    \/ \E w \in DOMAIN workers : background_construct(w)
    \/ \E w \in DOMAIN workers : background_step(w)
    \/ \E w \in DOMAIN workers : background_schedule(w)
    \/ \E w \in DOMAIN workers : background_finally(w)
    \/ ask_open_stop_report
    \/ \E count \in ConfiguredCounts : save_config(count)

SpecGui == InitGui /\ [][NextGui]_vars

\* the worker has not ended
in_progress(w) == workers[w].pc # "done"

\* the worker is inside find_multi_stop_devices
assembling(w) == workers[w].pc \in {"assembling", "reporting", "html"}

\* C24: result assembly never runs while an ingestion is in flight on the
\* same analyzer: every worker that constructed an analyzer has one of its
\* own, at most one worker is in progress at a time, and the button is
\* disabled from the launch of a worker until it has finished.
C24_AssemblyNeverDuringIngestion ==
    /\ \A v, w \in DOMAIN workers :
          /\ v # w /\ workers[v].analyzer # 0 => workers[v].analyzer # workers[w].analyzer
          /\ workers[v].analyzer = workers[w].analyzer /\ workers[v].analyzer # 0 =>
                ~(assembling(v) /\ workers[w].pc = "ingesting")
          /\ v # w => ~(in_progress(v) /\ in_progress(w))
    /\ (\E w \in DOMAIN workers : in_progress(w)) => button = "disabled"

\* a second comparison was launched after the first had ended, and its worker
\* is assembling results on the second analyzer
C24_Witness ==
    /\ Len(workers) = 2
    /\ workers[1] = Worker("done", 1)
    /\ workers[2] = Worker("assembling", 2)
    /\ button = "disabled"

-----------------------------------------------------------------------------
(* Properties of the result as a whole (checked under Spec) *)

\* the number of places of a returned list that refer to record i
places(refs, i) == Cardinality({k \in DOMAIN refs : refs[k] = i})

\* the record is not ignore-listed and was seen at minimum_occurrences stops or more
qualifies(dev) ==
    /\ ~ignore_listed(dev)
    /\ Cardinality(dev.stops_seen) >= minimum_occurrences

\* C25: every record that is not ignore-listed and was seen at
\* minimum_occurrences or more stops appears exactly once in the result of
\* find_multi_stop_devices, in the group of its identifier type and in no
\* other, its stored threat_score being calculate_threat_score of the record;
\* total_suspicious is the number of such records.
C25_QualifyingRecordsReportedOnce ==
    assembled =>
        \A results \in {ret[1]} :
            /\ \A i \in DOMAIN devices :
                  qualifies(devices[i]) =>
                      /\ places(results.bssids, i) =
                            (IF devices[i].identifier_type = BSSID THEN 1 ELSE 0)
                      /\ places(results.ssids, i) =
                            (IF devices[i].identifier_type = SSID THEN 1 ELSE 0)
                      /\ places(results.probes, i) =
                            (IF devices[i].identifier_type = PROBE THEN 1 ELSE 0)
                      /\ devices[i].threat_score = calculate_threat_score(devices[i])
            /\ total_suspicious(results) =
                  Cardinality({i \in DOMAIN devices : qualifies(devices[i])})

\* a result with a record in each group, beside records that do not qualify
C25_Witness ==
    /\ assembled
    /\ ret[1].bssids # <<>>
    /\ ret[1].ssids # <<>>
    /\ ret[1].probes # <<>>
    /\ \E i \in DOMAIN devices : ignore_listed(devices[i])
    /\ \E i \in DOMAIN devices :
          ~ignore_listed(devices[i]) /\ Cardinality(devices[i].stops_seen) < minimum_occurrences
    /\ \E i \in DOMAIN devices : qualifies(devices[i]) /\ devices[i].threat_score > 0

-----------------------------------------------------------------------------
(* Agreement of the per-stop sets and the registry (checked under Spec) *)

\* a record of the type and identifier exists and was seen at the stop
seen_at(identifier_type, identifier, stop_name) ==
    \E i \in DOMAIN devices :
        /\ devices[i].identifier_type = identifier_type
        /\ devices[i].identifier = identifier
        /\ stop_name \in devices[i].stops_seen

\* C26: for each identifier type T, identifier x and stop name s, x is in the
\* per-stop set of type T for s if and only if a record for (T, x) exists
\* with s in its stops_seen.
C26_SetsAgreeWithRegistry ==
    /\ \A identifier_type \in {BSSID, SSID, PROBE} :
          \A sets \in {by_stop_of(identifier_type)} :
              \A s \in DOMAIN sets :
                  \A x \in sets[s] : seen_at(identifier_type, x, s)
    /\ \A i \in DOMAIN devices :
          /\ devices[i].identifier_type \in {BSSID, SSID, PROBE}
          /\ \A s \in devices[i].stops_seen :
                \A sets \in {by_stop_of(devices[i].identifier_type)} :
                    s \in DOMAIN sets /\ devices[i].identifier \in sets[s]

\* identifiers of the three types are counted, one of them at two stops, and
\* one identifier is both a network name and a probed name
C26_Witness ==
    /\ \E s \in DOMAIN bssids_by_stop : bssids_by_stop[s] # {}
    /\ \E s \in DOMAIN ssids_by_stop, t \in DOMAIN probes_by_stop :
          ssids_by_stop[s] \cap probes_by_stop[t] # {}
    /\ \E i \in DOMAIN devices : Cardinality(devices[i].stops_seen) >= 2

-----------------------------------------------------------------------------
(* The stops of the records and the configured stops (checked under Spec) *)

\* the names of the configured stops
stop_names == {stops[i].name : i \in DOMAIN stops}

\* C27: every stop name in a record's stops_seen, and every key of its
\* timestamps_by_stop and signal_by_stop, is the name of a configured stop;
\* the number of stops seen never exceeds the number of configured stops and
\* the stop-coverage term of the score never exceeds 0.4.
C27_SeenStopsAreConfigured ==
    \A i \in DOMAIN devices :
        /\ devices[i].stops_seen \subseteq stop_names
        /\ DOMAIN devices[i].timestamps_by_stop \subseteq stop_names
        /\ DOMAIN devices[i].signal_by_stop \subseteq stop_names
        /\ Cardinality(devices[i].stops_seen) <= Len(stops)
        /\ stop_factor(devices[i]) <= Tenths(4)

\* one record was seen at every configured stop and has the full term, with
\* timestamps and signals at two stops, and another was seen at fewer stops
C27_Witness ==
    /\ \E i \in DOMAIN devices :
          /\ devices[i].stops_seen = stop_names
          /\ stop_factor(devices[i]) = Tenths(4)
          /\ Cardinality(DOMAIN devices[i].timestamps_by_stop) = 2
          /\ Cardinality(DOMAIN devices[i].signal_by_stop) = 2
    /\ \E i \in DOMAIN devices : Cardinality(devices[i].stops_seen) = 1

-----------------------------------------------------------------------------
(* Ingestion in any order: up to MaxOps sources of one row, line or observation *)

MaxOps == 2

\* one Kismet database of one row, one log directory of one file of one line,
\* or one manual observation
IngestionOps ==
    <<[source |-> "kismet",
      item |-> Row(Mac2, Json("object", NamePlain, NameCommon), PointA, Time1, Time2, 0 - 40)],
     [source |-> "kismet", item |-> Row(Mac2, NoJson, PointB, Time2, Time2, 0 - 60)],
     [source |-> "kismet",
      item |-> Row(Mac1, Json("beacon_array", NamePlain, NoName), PointB, Time1, Time1, 0)],
     [source |-> "logs", item |-> Line(TRUE, Some(PointA), <<Mac2>>)],
     [source |-> "logs", item |-> Line(TRUE, Some(PointB), <<Mac2, Mac3>>)],
     [source |-> "manual", item |-> <<Mac2, BSSID, "A">>],
     [source |-> "manual", item |-> <<Mac1, BSSID, "A">>],
     [source |-> "manual", item |-> <<NamePlain, SSID, "B">>],
     [source |-> "manual", item |-> <<NamePlain, PROBE, "A">>]>>

\* the engine's state after the handler of the source has run on the item
ingested(st, op) ==
    IF op.source = "kismet" THEN kismet_rows(st, <<op.item>>).st
    ELSE IF op.source = "logs" THEN log_files(st, << <<op.item>> >>).st
    ELSE manual_observation(st, op.item[1], op.item[2], op.item[3]).st

ingest(op) ==
    /\ calls < MaxOps
    /\ calls' = calls + 1
    /\ call' = [op |-> op.source, args |-> op.item]
    /\ ret' = None
    /\ becomes(ingested(engine, op))
    /\ UNCHANGED <<config, gui>>

NextOrder == \E k \in DOMAIN IngestionOps : ingest(IngestionOps[k])

SpecOrder == Init /\ [][NextOrder]_vars

\* the keys of the records a returned list refers to
keys_of(devs, refs) == {devs[refs[k]].key : k \in DOMAIN refs}

\* what the order of ingestion must not change: the records and their
\* stops_seen, the per-stop sets, and the members of each result group
outcome(st) ==
    LET out == multi_stop_devices(st.devices)
    IN  [records |-> {<<st.devices[i].key, st.devices[i].stops_seen>> : i \in DOMAIN st.devices},
         bssids_by_stop |-> st.bssids_by_stop,
         ssids_by_stop |-> st.ssids_by_stop,
         probes_by_stop |-> st.probes_by_stop,
         bssids |-> keys_of(out.devices, out.results.bssids),
         ssids |-> keys_of(out.devices, out.results.ssids),
         probes |-> keys_of(out.devices, out.results.probes)]

\* C28: the records, their stops_seen, the per-stop sets and the members of
\* each result group are the same whichever of two ingestion operations is
\* applied first, in every state (so for every order of a collection).
C28_IngestionOrderIrrelevant ==
    \A j, k \in DOMAIN IngestionOps :
        j < k =>
            \A a \in {IngestionOps[j]}, b \in {IngestionOps[k]} :
                outcome(ingested(ingested(engine, a), b))
                    = outcome(ingested(ingested(engine, b), a))

\* from the present state two operations give the records in another dict
\* order when swapped, and a result group has a member
C28_Witness ==
    /\ calls > 0
    /\ \E a, b \in {IngestionOps[k] : k \in DOMAIN IngestionOps} :
          /\ ingested(ingested(engine, a), b).devices # ingested(ingested(engine, b), a).devices
          /\ outcome(ingested(ingested(engine, a), b)).bssids # {}

-----------------------------------------------------------------------------
(* Repeated assembly (checked under Spec) *)

\* a call of find_multi_stop_devices leaves the configuration, the per-stop
\* sets, the number and order of the records and every field but threat_score
\* as they were, and the threat_score of the records it does not return too
only_scores_change ==
    call'.op = "find_multi_stop_devices" =>
        /\ UNCHANGED <<config, per_stop>>
        /\ DOMAIN devices' = DOMAIN devices
        /\ \A i \in DOMAIN devices :
              /\ [devices'[i] EXCEPT !.threat_score = devices[i].threat_score] = devices[i]
              /\ i \notin reported_in(ret'[1]) => devices'[i] = devices[i]

\* called again at once, find_multi_stop_devices returns the same lists and
\* leaves the records, their scores included, as they are
same_again ==
    assembled =>
        \A again \in {multi_stop_devices(devices)} :
            /\ again.results = ret[1]
            /\ again.devices = devices

\* C29: find_multi_stop_devices changes nothing in the analyzer but the
\* threat_score of the records it returns, and called again with no ingestion
\* in between it returns the same records in the same order with the same
\* scores.
C29_AssemblyRepeatable == [][only_scores_change]_vars /\ []same_again

\* a result whose first group ranks two records with scores, beside a record
\* that is not returned
C29_Witness ==
    /\ assembled
    /\ Len(ret[1].bssids) >= 2
    /\ devices[ret[1].bssids[1]].threat_score > 0
    /\ \E i \in DOMAIN devices : i \notin reported_in(ret[1])

-----------------------------------------------------------------------------
(* Signals and scores of the name records (checked under SpecOrder) *)

\* C30: no ingestion path records a signal on an SSID or PROBE record:
\* signal_by_stop stays empty and signal_strength unset, the signal term of
\* the score is 0 and the score never exceeds 0.65, below the 0.7 of HIGH.
C30_NameRecordsBelowHigh ==
    \A i \in DOMAIN devices :
        devices[i].identifier_type \in {SSID, PROBE} =>
            /\ devices[i].signal_by_stop = EmptyDict
            /\ devices[i].signal_strength = None
            /\ signal_factor(devices[i]) = 0
            /\ calculate_threat_score(devices[i]) <= Hundredths(65)
            /\ calculate_threat_score(devices[i]) < Tenths(7)
            /\ devices[i].threat_score <= Hundredths(65)

\* a PROBE record from Kismet rows that carried a signal reaches 0.65, and
\* the radio of one of the rows has that signal
C30_Witness ==
    /\ \E i \in DOMAIN devices :
          /\ devices[i].identifier_type = PROBE
          /\ calculate_threat_score(devices[i]) = Hundredths(65)
    /\ \E i \in DOMAIN devices :
          devices[i].identifier_type = BSSID /\ devices[i].signal_by_stop # EmptyDict

====
